---------------------------- MODULE Spec2Model ----------------------------
(***************************************************************************)
(* A model of the crawl engine of gospider_plus: the request registry,    *)
(* the reflection store, one crawler's stop flag, request hooks and       *)
(* hybrid browser queue, and the site scheduler of cmd/root.go.           *)
(*                                                                         *)
(* Strings are modelled as sequences of tokens, so that concatenation is  *)
(* \o and letter-case folding is a map over the tokens.  Each subsystem   *)
(* has its own specification (SpecRegistry, SpecReflect, SpecCrawler,     *)
(* SpecSched); the variables of the other subsystems stay at their        *)
(* initial values there.                                                   *)
(***************************************************************************)
EXTENDS Integers, Sequences, FiniteSets, TLC

VARIABLES
    \* ---- request registry (src/unnamed/part_000) ----
    once,         \* URLRegistry.once has fired
    filter,       \* URLRegistry.filter: the strings the StringFilter holds
    respHashes,   \* URLRegistry.respHashes: key -> last body hash
    regCall,      \* per caller of DuplicateRequest: the call in progress
    regOps,       \* number of registry calls started
    markLog       \* the MarkResponse calls made: key, body and result

regVars == <<once, filter, respHashes, regCall, regOps, markLog>>

VARIABLES
    \* ---- reflection engine (src/core/crawler_advanced.go) ----
    reflected,       \* Crawler.reflected (cfg.Reflected)
    reflectedStore,  \* Crawler.reflectedStore: request key -> reflectionEntry
    respHandler,     \* per response goroutine: idle, or the finding to output
    findings,        \* the findings given to outputReflection, in order
    seenResponses,   \* per key: a baseline / a mutated response was recorded
    refOps           \* number of responses handled and requests queued

refVars == <<reflected, reflectedStore, respHandler, findings, seenResponses,
             refOps>>

VARIABLES
    \* ---- one crawler (src/core/crawler.go) ----
    stopped,         \* Crawler.stopped (atomic.Bool)
    stopChanClosed,  \* Crawler.stopChan has been closed
    stopCall,        \* position of the caller of Stop()
    hybridEnabled,   \* Crawler.hybridEnabled
    hybridActive,    \* Crawler.hybridActive (atomic.Bool)
    hybridCtxDone,   \* Crawler.hybridCtx has been cancelled
    hybridEnqueued,  \* Crawler.hybridEnqueued (atomic counter)
    hybridQueue,     \* Crawler.hybridQueue (buffered channel)
    hybridVisited,   \* Crawler.hybridVisited (StringFilter)
    req,             \* the requests of the two collectors, per goroutine
    enq,             \* position of each goroutine inside enqueueHybrid
    worker,          \* position of each hybridWorker goroutine
    mainPc,          \* position of Start()
    accepted,        \* the URLs sent into hybridQueue
    navigated,       \* the URLs NavigateAndAnalyze was called with
    crVisits         \* number of collector visits issued

crVars == <<stopped, stopChanClosed, stopCall, hybridEnabled, hybridActive,
            hybridCtxDone, hybridEnqueued, hybridQueue, hybridVisited, req,
            enq, worker, mainPc, accepted, navigated, crVisits>>

VARIABLES
    \* ---- the site scheduler (src/cmd/root.go) ----
    ctxDone,         \* the process context has been cancelled
    inputChan,       \* the sites in the buffered channel inputChan
    feeder,          \* the feeder goroutine: next site to send, channel closed
    siteWorker,      \* position of each site worker goroutine
    activeCrawlers,  \* the map activeCrawlers
    stopCalled,      \* the crawlers Stop() has been called on
    drainPc,         \* position of the drain goroutine
    runPc            \* position of runRoot itself

schedVars == <<ctxDone, inputChan, feeder, siteWorker, activeCrawlers,
               stopCalled, drainPc, runPc>>

VARIABLES
    \* ---- functions without state of their own ----
    call             \* the last call of such a function: arguments and results

VARIABLES
    \* ---- the backoff counters of one crawler ----
    backoff          \* backoff429, backoff403, backoffError, the goroutines
                     \* inside time.Sleep, and the last recordBackoff call

VARIABLES
    \* ---- the application state graph ----
    graph            \* g.nodes, g.transitions, and what the calls returned

VARIABLES
    \* ---- the hybrid queue under load ----
    hq               \* hybridQueue and the fields enqueueHybrid reads, for a
                     \* crawler with the default visit limit

VARIABLES
    \* ---- the browser pool ----
    pool             \* bp.pagePool, the context of the callers, and each
                     \* caller's position in AcquirePage and ReleasePage

VARIABLES
    \* ---- the URL processor ----
    proc             \* the filter of its registry, the URLs-found counter,
                     \* and each Process call's position

VARIABLES
    \* ---- one Output (src/core/output.go) ----
    output           \* the lines of its file, the strings its filter holds,
                     \* and the WriteToFile calls made so far

VARIABLES
    \* ---- synthesised requests ----
    js               \* the filter of the registry and the requests that
                     \* queueRequest handed to the collector

VARIABLES
    \* ---- the hybrid workers analysing pages ----
    analysis         \* the state graph, and each worker's position in
                     \* NavigateAndAnalyze and handleHybridResult

VARIABLES
    \* ---- the values a crawler finds in responses ----
    found            \* subSet, awsSet and jsSet, the values printed, and
                     \* each callback's position

VARIABLES
    \* ---- the DOM deduper of a crawler (src/core/output.go) ----
    dom              \* its threshold, the signatures recorded per domain,
                     \* and the last call of ShouldSkip

VARIABLES
    \* ---- Stop() called by several goroutines ----
    stops            \* stopped, the closes of stopChan, and each caller's
                     \* position in Stop()

vars ==
    <<regVars, refVars, crVars, schedVars, call, backoff, graph, hq, pool,
      proc, output, js, analysis, found, dom, stops>>

\* What the actions of one subsystem leave alone.
notRegVars ==
    <<refVars, crVars, schedVars, call, backoff, graph, hq, pool, proc,
      output, js, analysis, found, dom, stops>>

notRefVars ==
    <<regVars, crVars, schedVars, call, backoff, graph, hq, pool, proc,
      output, js, analysis, found, dom, stops>>

notCrVars ==
    <<regVars, refVars, schedVars, call, backoff, graph, hq, pool, proc,
      output, js, analysis, found, dom, stops>>

notSchedVars ==
    <<regVars, refVars, crVars, call, backoff, graph, hq, pool, proc, output,
      js, analysis, found, dom, stops>>

notCallVars ==
    <<regVars, refVars, crVars, schedVars, backoff, graph, hq, pool, proc,
      output, js, analysis, found, dom, stops>>

notBackoffVars ==
    <<regVars, refVars, crVars, schedVars, call, graph, hq, pool, proc,
      output, js, analysis, found, dom, stops>>

notGraphVars ==
    <<regVars, refVars, crVars, schedVars, call, backoff, hq, pool, proc,
      output, js, analysis, found, dom, stops>>

notHqVars ==
    <<regVars, refVars, crVars, schedVars, call, backoff, graph, pool, proc,
      output, js, analysis, found, dom, stops>>

notPoolVars ==
    <<regVars, refVars, crVars, schedVars, call, backoff, graph, hq, proc,
      output, js, analysis, found, dom, stops>>

notProcVars ==
    <<regVars, refVars, crVars, schedVars, call, backoff, graph, hq, pool,
      output, js, analysis, found, dom, stops>>

notOutputVars ==
    <<regVars, refVars, crVars, schedVars, call, backoff, graph, hq, pool,
      proc, js, analysis, found, dom, stops>>

notJsVars ==
    <<regVars, refVars, crVars, schedVars, call, backoff, graph, hq, pool,
      proc, output, analysis, found, dom, stops>>

notAnalysisVars ==
    <<regVars, refVars, crVars, schedVars, call, backoff, graph, hq, pool,
      proc, output, js, found, dom, stops>>

notFoundVars ==
    <<regVars, refVars, crVars, schedVars, call, backoff, graph, hq, pool,
      proc, output, js, analysis, dom, stops>>

notDomVars ==
    <<regVars, refVars, crVars, schedVars, call, backoff, graph, hq, pool,
      proc, output, js, analysis, found, stops>>

notStopsVars ==
    <<regVars, refVars, crVars, schedVars, call, backoff, graph, hq, pool,
      proc, output, js, analysis, found, dom>>

-----------------------------------------------------------------------------
(* Bounds of the model.                                                    *)

\* Registry calls made in one run.
MaxRegOps == 3

\* Responses handled and requests queued by the reflection engine in one run.
MaxRefOps == 4

\* Visits issued on the collectors of one crawler in one run.
MaxVisits == 2

\* cfg.HybridVisitLimit, the --hybrid-max-visits of the run.
HybridVisitLimit == 2

\* The --threads of the run: the site workers and the capacity of inputChan.
Threads == 2

\* The length of the site list.
NumSites == 3

\* Responses and errors passed to recordBackoff in one run.
MaxBackoffOps == 7

\* Calls on the state graph in one run.
MaxGraphOps == 3

\* enqueueHybrid calls made on the crawler with the default visit limit.
MaxHybridCalls == 10

\* cfg.PoolSize of the browser pool: the pages it is initialized with.
PoolSize == 2

\* AcquirePage calls made on the browser pool in one run.
MaxPoolCalls == 5

\* URLProcessor.Process calls made in one run.
MaxProcessCalls == 4

MaxWrites == 3

MaxJSCalls == 3

MaxPayloads == 2

MaxNavigations == 4

MaxFindOps == 3

\* The calls of ShouldSkip on one deduper.
MaxDomCalls == 3

\* The calls of Stop() on one crawler.
MaxStopCalls == 4

-----------------------------------------------------------------------------
(* Strings: trimming, letter case, byte order, SHA-1.                      *)

\* strings.TrimSpace on the strings the model uses.
TrimSpace(s) ==
    CASE s = " "     -> ""
      [] s = " x "   -> "x"
      [] s = " get " -> "get"
      [] s = " %zz " -> "%zz"
      [] s = " 1 "   -> "1"
      [] OTHER       -> s

\* strings.ToUpper on the method strings the model uses.
ToUpper(s) ==
    CASE s = "get"  -> "GET"
      [] s = "post" -> "POST"
      [] OTHER      -> s

\* strings.ToLower on the tokens the model uses.
ToLower(s) ==
    CASE s = "GET"    -> "get"
      [] s = "POST"   -> "post"
      [] s = "HTTP"   -> "http"
      [] s = "HTTPS"  -> "https"
      [] s = "EX.com" -> "ex.com"
      [] s = "A"      -> "a"
      [] s = "B"      -> "b"
      [] s = "X-A"    -> "x-a"
      [] s = "X-B"    -> "x-b"
      [] s = "Click"  -> "click"
      [] OTHER        -> s

\* Byte order of the query keys and values the model uses (sort.Strings).
ByteRank(s) ==
    CASE s = ""  -> 0
      [] s = "1" -> 1
      [] s = "2" -> 2
      [] s = "A" -> 3
      [] s = "a" -> 4
      [] s = "b" -> 5
      [] s = "x-a" -> 7
      [] s = "x-b" -> 8
      [] OTHER   -> 6

\* hex(sha1.Sum(trimmed)) for the non-empty trimmed contents the model uses
\* (the first eight hex digits of the real digests).
Sha1Hex(t) ==
    CASE t = "x" -> "11f6ad8e"
      [] t = "y" -> "95cb0bfd"
      [] t = "X" -> "c032adc1"
      [] OTHER   -> "ffffffff"

hashContentString(content) ==
    LET trimmed == TrimSpace(content)
    IN  IF trimmed = "" THEN "" ELSE Sha1Hex(trimmed)

hashContent(content) ==
    IF content = "" THEN "" ELSE hashContentString(content)


-----------------------------------------------------------------------------
(* URLs.  A parsed URL (net/url.URL) is a record; the raw string it was    *)
(* parsed from is not kept.  kind "empty" is the empty raw URL and kind    *)
(* "bad" a raw string url.Parse rejects.  String() of a URL is a sequence  *)
(* of tokens.                                                              *)

\* sort.Strings: insertion of one string into a sorted sequence.
RECURSIVE SortedInsert(_, _)
SortedInsert(sorted, s) ==
    IF sorted = <<>> THEN <<s>>
    ELSE IF ByteRank(s) <= ByteRank(Head(sorted)) THEN <<s>> \o sorted
    ELSE <<Head(sorted)>> \o SortedInsert(Tail(sorted), s)

\* sort.Strings.
RECURSIVE SortStrings(_)
SortStrings(values) ==
    IF values = <<>> THEN <<>>
    ELSE SortedInsert(SortStrings(Tail(values)), Head(values))

RECURSIVE dedupeSortedStrings(_)
dedupeSortedStrings(values) ==
    IF Len(values) < 2 THEN values
    ELSE IF values[1] = values[2] THEN dedupeSortedStrings(Tail(values))
    ELSE <<values[1]>> \o dedupeSortedStrings(Tail(values))

\* url.ParseQuery: the values of key k in a query (a sequence of <<key, value>>
\* pairs), in the order they appear.
RECURSIVE QueryValues(_, _)
QueryValues(query, k) ==
    IF query = <<>> THEN <<>>
    ELSE (IF Head(query)[1] = k THEN <<Head(query)[2]>> ELSE <<>>)
         \o QueryValues(Tail(query), k)

\* The keys of a query, one occurrence each, in the order they appear.
RECURSIVE QueryKeys(_)
QueryKeys(query) ==
    IF query = <<>> THEN <<>>
    ELSE LET rest == QueryKeys(Tail(query))
             k    == Head(query)[1]
         IN  IF \E i \in DOMAIN rest : rest[i] = k THEN rest ELSE <<k>> \o rest

\* NormalizeQuery: keys sorted, each key's values sorted and deduplicated.
RECURSIVE NormalizeQueryKeys(_, _)
NormalizeQueryKeys(query, keys) ==
    IF keys = <<>> THEN <<>>
    ELSE LET k    == Head(keys)
             vals == dedupeSortedStrings(SortStrings(QueryValues(query, k)))
         IN  [i \in DOMAIN vals |-> <<k, vals[i]>>]
             \o NormalizeQueryKeys(query, Tail(keys))

\* NormalizeQuery without the sorting of the keys.
NormalizeQueryUnsorted(query) ==
    IF \E i \in DOMAIN query : query[i][2] = "%zz" THEN query
    ELSE NormalizeQueryKeys(query, QueryKeys(query))

\* NormalizeQuery.  url.ParseQuery rejects a query with an invalid escape (the
\* value "%zz"), and the query is then returned as it was given.
NormalizeQuery(query) ==
    IF \E i \in DOMAIN query : query[i][2] = "%zz" THEN query
    ELSE NormalizeQueryKeys(query, SortStrings(QueryKeys(query)))

\* path.Clean on a rooted path given as its segments: "." and empty segments
\* are dropped, ".." removes the segment before it (none at the root).
RECURSIVE CleanSegments(_, _)
CleanSegments(done, todo) ==
    IF todo = <<>> THEN done
    ELSE LET s == Head(todo)
         IN  IF s = "." \/ s = "" THEN CleanSegments(done, Tail(todo))
             ELSE IF s = ".."
                  THEN CleanSegments(IF done = <<>> THEN <<>>
                                     ELSE SubSeq(done, 1, Len(done) - 1),
                                     Tail(todo))
             ELSE CleanSegments(Append(done, s), Tail(todo))

\* curlyBracketDecoder.Replace on one token.
curlyBracketDecoder(s) ==
    CASE s = "%7Bid%7D" -> "{id}"
      [] s = "%7bid%7d" -> "{id}"
      [] OTHER          -> s

\* NormalizePathComponent: the cleaned path, without a trailing slash, with
\* the curly-bracket escapes decoded.
NormalizePathComponent(path) ==
    LET clean == CleanSegments(<<>>, path)
    IN  [i \in DOMAIN clean |-> curlyBracketDecoder(clean[i])]

\* normalizeHost: <<host, port>> with the host lower-cased and the default port
\* of the (already lower-cased) scheme dropped.
normalizeHost(u) ==
    LET host == ToLower(u.host)
    IN  IF u.port = "" THEN <<host, "">>
        ELSE IF (u.scheme = "http" /\ u.port = "80")
                \/ (u.scheme = "https" /\ u.port = "443")
             THEN <<host, "">>
        ELSE <<host, u.port>>

\* "/seg/seg" as tokens; the root path is "/".
PathString(path) ==
    [i \in 1..(2 * Len(path)) |->
        IF i % 2 = 1 THEN "/" ELSE path[i \div 2]]

\* "k=v&k=v" as tokens (appendQueryComponent: no "=" before an empty value).
RECURSIVE QueryString(_)
QueryString(query) ==
    IF query = <<>> THEN <<>>
    ELSE (IF Head(query)[2] = "" THEN <<Head(query)[1]>>
          ELSE <<Head(query)[1], "=", Head(query)[2]>>)
         \o (IF Tail(query) = <<>> THEN <<>> ELSE <<"&">>)
         \o QueryString(Tail(query))

\* (*url.URL).String().
URLString(u) ==
    <<u.scheme, "://", u.host>>
    \o (IF u.port = "" THEN <<>> ELSE <<":", u.port>>)
    \o (IF u.path = <<>> THEN <<"/">> ELSE PathString(u.path))
    \o (IF u.slash /\ u.path # <<>> THEN <<"/">> ELSE <<>>)
    \o (IF u.query = <<>> THEN <<>> ELSE <<"?">> \o QueryString(u.query))
    \o (IF u.frag = "" THEN <<>> ELSE <<"#", u.frag>>)

\* NormalizeDisplayURL of the string of u: the query is normalised again and
\* the curly-bracket escapes are decoded.
NormalizeDisplayURL(u) ==
    LET s == URLString([u EXCEPT !.query = NormalizeQuery(u.query)])
    IN  [i \in DOMAIN s |-> curlyBracketDecoder(s[i])]

\* canonicalRequestKey; the empty key is <<>>.
canonicalRequestKey(method, u, body) ==
    LET m0 == ToUpper(TrimSpace(method))
        m  == IF m0 = "" THEN "GET" ELSE m0
    IN  IF u.kind = "empty" THEN <<>>
        ELSE IF u.kind = "bad" THEN <<m, " ", TrimSpace(u.raw)>>
        ELSE LET p1 == [u EXCEPT !.frag = "", !.scheme = ToLower(u.scheme)]
                 hp == normalizeHost(p1)
                 p2 == [p1 EXCEPT !.host = hp[1], !.port = hp[2],
                                  !.path = NormalizePathComponent(u.path),
                                  !.slash = FALSE,
                                  !.query = IF u.query # <<>>
                                            THEN NormalizeQuery(u.query)
                                            ELSE u.query]
                 hash == hashContentString(body)
             IN  <<m, " ">> \o NormalizeDisplayURL(p2)
                 \o (IF hash # "" THEN <<" body:", hash>> ELSE <<>>)

-----------------------------------------------------------------------------
(* The request registry (URLRegistry).  Callers run concurrently.  A       *)
(* DuplicateRequest call computes its key, then makes one call of the      *)
(* thread-safe StringFilter.  A MarkResponse call computes key and hash,   *)
(* which are its own, and does the rest under respMu: it is one step.      *)

RegCallers == {1, 2}

RegMethods == {" get ", "POST"}

DupBodies == {"", " x "}

MarkBodies == {"", " ", " x ", "x", "y"}

\* https://EX.com:443/a?b=2&a=1#frag
URLUpperPort ==
    [kind |-> "url", scheme |-> "https", host |-> "EX.com", port |-> "443",
     path |-> <<"a">>, slash |-> FALSE,
     query |-> << <<"b", "2">>, <<"a", "1">> >>, frag |-> "frag"]

\* https://ex.com/a/?a=1&b=2
URLPlain ==
    [kind |-> "url", scheme |-> "https", host |-> "ex.com", port |-> "",
     path |-> <<"a">>, slash |-> TRUE,
     query |-> << <<"a", "1">>, <<"b", "2">> >>, frag |-> ""]

\* https://ex.com/A?a=1&b=2
URLUpperPath ==
    [kind |-> "url", scheme |-> "https", host |-> "ex.com", port |-> "",
     path |-> <<"A">>, slash |-> FALSE,
     query |-> << <<"a", "1">>, <<"b", "2">> >>, frag |-> ""]

EmptyURL == [kind |-> "empty"]

\* A raw URL that url.Parse rejects.
BadURL == [kind |-> "bad", raw |-> " %zz "]

RegURLs == {URLUpperPort, URLPlain, URLUpperPath, EmptyURL, BadURL}

MarkURLs == {URLUpperPort, URLPlain, EmptyURL}

\* strings.ToLower of a string of tokens.
FoldCase(key) == [i \in DOMAIN key |-> ToLower(key[i])]

\* StringFilter.Duplicate comparing byte by byte.
StringFilterDuplicateExact(set, s) ==
    [dup |-> s \in set, set |-> set \cup {s}]

\* StringFilter.Duplicate(s): whether the filter held s, compared without
\* letter case, and the filter with s added.
StringFilterDuplicate(set, s) ==
    [dup |-> FoldCase(s) \in set, set |-> set \cup {FoldCase(s)}]

\* ensure without its sync.Once: every call creates the filter and the map.
ensureEveryCall == [filter |-> {}, respHashes |-> <<>>]

\* URLRegistry.ensure: the first call creates the empty filter and the empty
\* hash map (sync.Once); later calls keep them.
ensure ==
    [filter |-> IF once THEN filter ELSE {},
     respHashes |-> IF once THEN respHashes ELSE <<>>]

\* DuplicateRequest with the body left out of the key it gives the filter.
DuplicateRequestNoBody(c, method, u, body) ==
    LET key == canonicalRequestKey(method, u, "")
    IN  /\ regCall[c].pc # "filter"
        /\ regOps < MaxRegOps
        /\ regOps' = regOps + 1
        /\ UNCHANGED markLog
        /\ IF key = <<>>
           THEN /\ regCall' = [regCall EXCEPT ![c] =
                       [pc |-> "done", key |-> key, ckey |-> <<>>,
                        result |-> FALSE, absentAtCall |-> TRUE,
                        wasPresent |-> FALSE]]
                /\ UNCHANGED <<once, filter, respHashes>>
           ELSE /\ regCall' = [regCall EXCEPT ![c] =
                       [pc |-> "filter", key |-> key,
                        ckey |-> canonicalRequestKey(method, u, body),
                        absentAtCall |->
                            FoldCase(canonicalRequestKey(method, u, body))
                                \notin ensure.filter]]
                /\ once' = TRUE
                /\ filter' = ensure.filter
                /\ respHashes' = ensure.respHashes

\* DuplicateRequest up to r.ensure(): the key is computed; an empty key
\* returns false.  ckey records the canonical key of the request and
\* absentAtCall whether the filter held it when the call began.
DuplicateRequest(c, method, u, body) ==
    LET key == canonicalRequestKey(method, u, body)
    IN  /\ regCall[c].pc # "filter"
        /\ regOps < MaxRegOps
        /\ regOps' = regOps + 1
        /\ UNCHANGED markLog
        /\ IF key = <<>>
           THEN /\ regCall' = [regCall EXCEPT ![c] =
                       [pc |-> "done", key |-> key, ckey |-> <<>>,
                        result |-> FALSE, absentAtCall |-> TRUE,
                        wasPresent |-> FALSE]]
                /\ UNCHANGED <<once, filter, respHashes>>
           ELSE /\ regCall' = [regCall EXCEPT ![c] =
                       [pc |-> "filter", key |-> key,
                        ckey |-> canonicalRequestKey(method, u, body),
                        absentAtCall |-> FoldCase(key) \notin ensure.filter]]
                /\ once' = TRUE
                /\ filter' = ensure.filter
                /\ respHashes' = ensure.respHashes

\* The filter call done as a membership test at the start of the call and an
\* insertion later, instead of one atomic Duplicate.
DuplicateRequestFilterStale(c) ==
    /\ regCall[c].pc = "filter"
    /\ filter' = filter \cup {FoldCase(regCall[c].key)}
    /\ regCall' = [regCall EXCEPT ![c] =
           [pc |-> "done", key |-> regCall[c].key, ckey |-> regCall[c].ckey,
            result |-> ~regCall[c].absentAtCall,
            absentAtCall |-> regCall[c].absentAtCall,
            wasPresent |-> FoldCase(regCall[c].ckey) \in filter]]
    /\ UNCHANGED <<once, respHashes, regOps, markLog>>

\* return r.filter.Duplicate(key).  wasPresent records whether the filter held
\* the request's canonical key before this call of the filter.
DuplicateRequestFilter(c) ==
    /\ regCall[c].pc = "filter"
    /\ LET r == StringFilterDuplicate(filter, regCall[c].key)
       IN  /\ filter' = r.set
           /\ regCall' = [regCall EXCEPT ![c] =
                  [pc |-> "done", key |-> regCall[c].key,
                   ckey |-> regCall[c].ckey, result |-> r.dup,
                   absentAtCall |-> regCall[c].absentAtCall,
                   wasPresent |-> FoldCase(regCall[c].ckey) \in filter]]
    /\ UNCHANGED <<once, respHashes, regOps, markLog>>

\* The index of key in the hash map (a sequence of <<key, hash>>), 0 if absent.
HashIndex(hashes, key) ==
    IF \E i \in DOMAIN hashes : hashes[i][1] = key
    THEN CHOOSE i \in DOMAIN hashes : hashes[i][1] = key
    ELSE 0

\* MarkResponse that keeps the first hash of a key instead of replacing it.
MarkResponseKeepFirst(method, u, body) ==
    LET key      == canonicalRequestKey(method, u, "")
        hash     == hashContent(body)
        hashes   == ensure.respHashes
        at       == HashIndex(hashes, key)
        seen     == at # 0
        same     == seen /\ hashes[at][2] = hash
    IN  /\ regOps < MaxRegOps
        /\ regOps' = regOps + 1
        /\ UNCHANGED regCall
        /\ markLog' = Append(markLog, [key |-> key, body |-> body,
                                       result |-> (key # <<>> /\ same)])
        /\ IF key = <<>>
           THEN UNCHANGED <<once, filter, respHashes>>
           ELSE /\ once' = TRUE
                /\ filter' = ensure.filter
                /\ respHashes' = IF seen THEN hashes
                                 ELSE Append(hashes, <<key, hash>>)

\* MarkResponse that returns false for every body with an empty hash.
MarkResponseEmptyFalse(method, u, body) ==
    LET key      == canonicalRequestKey(method, u, "")
        hash     == hashContent(body)
        hashes   == ensure.respHashes
        at       == HashIndex(hashes, key)
        seen     == at # 0
        same     == seen /\ hashes[at][2] = hash /\ hash # ""
    IN  /\ regOps < MaxRegOps
        /\ regOps' = regOps + 1
        /\ UNCHANGED regCall
        /\ markLog' = Append(markLog, [key |-> key, body |-> body,
                                       result |-> (key # <<>> /\ same)])
        /\ IF key = <<>>
           THEN UNCHANGED <<once, filter, respHashes>>
           ELSE /\ once' = TRUE
                /\ filter' = ensure.filter
                /\ respHashes' =
                       IF same THEN hashes
                       ELSE IF seen THEN [hashes EXCEPT ![at] = <<key, hash>>]
                       ELSE Append(hashes, <<key, hash>>)

\* MarkResponse.  markLog records each call: its key, its body and its result.
MarkResponse(method, u, body) ==
    LET key      == canonicalRequestKey(method, u, "")
        hash     == hashContent(body)
        hashes   == ensure.respHashes
        at       == HashIndex(hashes, key)
        seen     == at # 0
        same     == seen /\ hashes[at][2] = hash
    IN  /\ regOps < MaxRegOps
        /\ regOps' = regOps + 1
        /\ UNCHANGED regCall
        /\ markLog' = Append(markLog, [key |-> key, body |-> body,
                                       result |-> (key # <<>> /\ same)])
        /\ IF key = <<>>
           THEN UNCHANGED <<once, filter, respHashes>>
           ELSE /\ once' = TRUE
                /\ filter' = ensure.filter
                /\ respHashes' =
                       IF same THEN hashes
                       ELSE IF seen THEN [hashes EXCEPT ![at] = <<key, hash>>]
                       ELSE Append(hashes, <<key, hash>>)

RegInit ==
    /\ once = FALSE
    /\ filter = {}
    /\ respHashes = <<>>
    /\ regCall = [c \in RegCallers |-> [pc |-> "idle"]]
    /\ regOps = 0
    /\ markLog = <<>>

\* Concurrent callers of DuplicateRequest.
RegNext ==
    \/ \E c \in RegCallers, m \in RegMethods, u \in RegURLs, b \in DupBodies :
           DuplicateRequest(c, m, u, b) /\ UNCHANGED notRegVars
    \/ \E c \in RegCallers : DuplicateRequestFilter(c) /\ UNCHANGED notRegVars


\* Concurrent callers of DuplicateRequest and calls of MarkResponse on the
\* same registry, for two URLs with one canonical key and the empty URL.
RegMarkNext ==
    \/ \E c \in RegCallers, u \in MarkURLs, b \in DupBodies :
           DuplicateRequest(c, "POST", u, b) /\ UNCHANGED notRegVars
    \/ \E c \in RegCallers : DuplicateRequestFilter(c) /\ UNCHANGED notRegVars
    \/ \E u \in MarkURLs, b \in {"", "x"} :
           MarkResponse("POST", u, b) /\ UNCHANGED notRegVars

\* A sequence of MarkResponse calls.
MarkNext ==
    \E m \in RegMethods, u \in MarkURLs, b \in MarkBodies :
        MarkResponse(m, u, b) /\ UNCHANGED notRegVars


-----------------------------------------------------------------------------
(* The reflection engine.  Responses are handled by concurrent goroutines; *)
(* each handler updates the entry of the request key and evaluates it      *)
(* under reflectedMutex, and outputs the finding after unlocking.          *)

RefKeys == {"k1", "k2"}

RefHandlers == {1, 2}

\* The response bodies: two without any marker, one that echoes the payload,
\* one with the template marker.  hashBody is the body's own name.
RefBodies == {"plain", "other", "echo", "tmpl"}

\* The mutated requests of a key: parameter, payload and URL of the request.
RefMutations ==
    {[param |-> "q", payload |-> "p1", url |-> "u?q=p1"],
     [param |-> "id", payload |-> "p2", url |-> "u?id=p2"]}

\* The request context and body of a response: a baseline response carries no
\* "reflected", "param" or "payload".
RefResponses ==
    [key : RefKeys \cup {""}, reflected : {FALSE}, param : {""}, payload : {""},
     url : {"u"}, body : RefBodies, method : {"GET"}, origin : {"o1"},
     status : {200}]
    \cup
    {[key |-> k, reflected |-> TRUE, param |-> m.param, payload |-> m.payload,
      url |-> m.url, body |-> b, method |-> "GET", origin |-> "o1",
      status |-> 200] :
        k \in RefKeys \cup {""}, m \in RefMutations, b \in RefBodies}

\* The zero reflectionEntry, which ensureReflectionEntry creates.
ensureReflectionEntry ==
    [baselineSet |-> FALSE, mutatedSet |-> FALSE, baselineHash |-> "",
     mutatedHash |-> "", mutatedContains |-> FALSE, mutatedMarkers |-> <<>>,
     url |-> "", param |-> "", payload |-> "", emitted |-> FALSE,
     method |-> "", origin |-> "", mutatedStatus |-> 0]

appendUniqueMarker(list, marker) ==
    IF \E i \in DOMAIN list : list[i] = marker THEN list
    ELSE Append(list, marker)

\* findEncodedPayloads followed by the template-marker match.
findEncodedPayloads(body) ==
    CASE body = "echo" -> <<"payload-reflected">>
      [] body = "tmpl" -> <<"template-marker">>
      [] OTHER         -> <<>>

RECURSIVE appendMarkers(_, _)
appendMarkers(reasons, markers) ==
    IF markers = <<>> THEN reasons
    ELSE appendMarkers(appendUniqueMarker(reasons, Head(markers)), Tail(markers))

\* evaluate without its test of baselineSet.
evaluateNoBaselineTest(entry) ==
    LET r1 == IF entry.mutatedContains /\ entry.mutatedMarkers = <<>>
              THEN <<"payload-reflected">> ELSE <<>>
        r2 == appendMarkers(r1, entry.mutatedMarkers)
        reasons == IF entry.baselineHash # entry.mutatedHash
                   THEN appendUniqueMarker(r2, "body-delta") ELSE r2
    IN  IF ~entry.mutatedSet \/ entry.emitted \/ reasons = <<>>
        THEN [entry |-> entry, finding |-> [found |-> FALSE]]
        ELSE [entry |-> [entry EXCEPT !.emitted = TRUE],
              finding |-> [found |-> TRUE, url |-> entry.url,
                           method |-> entry.method, origin |-> entry.origin,
                           status |-> entry.mutatedStatus,
                           param |-> entry.param, payload |-> entry.payload,
                           reasons |-> reasons]]

\* evaluate that forgets to set the emitted flag.
evaluateNoEmitted(entry) ==
    LET r1 == IF entry.mutatedContains /\ entry.mutatedMarkers = <<>>
              THEN <<"payload-reflected">> ELSE <<>>
        r2 == appendMarkers(r1, entry.mutatedMarkers)
        reasons == IF entry.baselineHash # entry.mutatedHash
                   THEN appendUniqueMarker(r2, "body-delta") ELSE r2
    IN  IF ~entry.baselineSet \/ ~entry.mutatedSet \/ entry.emitted
           \/ reasons = <<>>
        THEN [entry |-> entry, finding |-> [found |-> FALSE]]
        ELSE [entry |-> entry,
              finding |-> [found |-> TRUE, url |-> entry.url,
                           method |-> entry.method, origin |-> entry.origin,
                           status |-> entry.mutatedStatus,
                           param |-> entry.param, payload |-> entry.payload,
                           reasons |-> reasons]]

\* evaluate that does not compare the two hashes.
evaluateNoBodyDelta(entry) ==
    LET r1 == IF entry.mutatedContains /\ entry.mutatedMarkers = <<>>
              THEN <<"payload-reflected">> ELSE <<>>
        reasons == appendMarkers(r1, entry.mutatedMarkers)
    IN  IF ~entry.baselineSet \/ ~entry.mutatedSet \/ entry.emitted
           \/ reasons = <<>>
        THEN [entry |-> entry, finding |-> [found |-> FALSE]]
        ELSE [entry |-> [entry EXCEPT !.emitted = TRUE],
              finding |-> [found |-> TRUE, url |-> entry.url,
                           method |-> entry.method, origin |-> entry.origin,
                           status |-> entry.mutatedStatus,
                           param |-> entry.param, payload |-> entry.payload,
                           reasons |-> reasons]]

\* (*reflectionEntry).evaluate: the entry afterwards and the finding.
evaluate(entry) ==
    LET r1 == IF entry.mutatedContains /\ entry.mutatedMarkers = <<>>
              THEN <<"payload-reflected">> ELSE <<>>
        r2 == appendMarkers(r1, entry.mutatedMarkers)
        reasons == IF entry.baselineHash # entry.mutatedHash
                   THEN appendUniqueMarker(r2, "body-delta") ELSE r2
    IN  IF ~entry.baselineSet \/ ~entry.mutatedSet \/ entry.emitted
           \/ reasons = <<>>
        THEN [entry |-> entry, finding |-> [found |-> FALSE]]
        ELSE [entry |-> [entry EXCEPT !.emitted = TRUE],
              finding |-> [found |-> TRUE, url |-> entry.url,
                           method |-> entry.method, origin |-> entry.origin,
                           status |-> entry.mutatedStatus,
                           param |-> entry.param, payload |-> entry.payload,
                           reasons |-> reasons]]

\* The handler's step under the mutex: the store gets the evaluated entry and
\* the handler keeps the finding, with the key and whether a baseline and a
\* mutated response had been recorded for the key by then.
RecordAndEvaluate(h, key, entry, seen) ==
    LET ev == evaluate(entry)
    IN  /\ reflectedStore' = [reflectedStore EXCEPT ![key] = ev.entry]
        /\ seenResponses' = [seenResponses EXCEPT ![key] = seen]
        /\ respHandler' = [respHandler EXCEPT ![h] =
               IF ev.finding.found
               THEN [pc |-> "output", key |-> key, finding |-> ev.finding,
                     hadBaseline |-> seen.baseline, hadMutated |-> seen.mutated]
               ELSE [pc |-> "idle"]]

\* handleBaselineReflection that overwrites the parameter and the payload of
\* the entry.
recordBaselineOverwrite(e, r) ==
    [e EXCEPT !.baselineSet = TRUE, !.baselineHash = r.body,
              !.method = IF e.method = "" THEN r.method ELSE e.method,
              !.origin = IF e.origin = "" THEN r.origin ELSE e.origin,
              !.param = r.param, !.payload = r.payload]

\* handleBaselineReflection, what it writes to the entry e of the key of the
\* response r.
recordBaseline(e, r) ==
    [e EXCEPT !.baselineSet = TRUE, !.baselineHash = r.body,
              !.method = IF e.method = "" THEN r.method ELSE e.method,
              !.origin = IF e.origin = "" THEN r.origin ELSE e.origin,
              !.param = IF e.param = "" THEN r.param ELSE e.param,
              !.payload = IF e.payload = "" THEN r.payload ELSE e.payload]

\* handleReflectedResponse, what it writes to the entry e of the key of the
\* response r.
recordMutated(e, r) ==
    LET reasons == findEncodedPayloads(r.body)
    IN  [e EXCEPT !.mutatedSet = TRUE, !.mutatedHash = r.body,
                  !.mutatedStatus = r.status,
                  !.mutatedContains = (reasons # <<>>),
                  !.mutatedMarkers = reasons, !.url = r.url,
                  !.method = IF e.method = "" THEN r.method ELSE e.method,
                  !.origin = IF e.origin = "" THEN r.origin ELSE e.origin,
                  !.param = IF r.param # "" THEN r.param ELSE e.param,
                  !.payload = r.payload]

handleBaselineReflection(h, r) ==
    IF ~reflected \/ r.key = ""
    THEN UNCHANGED <<reflectedStore, seenResponses, respHandler>>
    ELSE RecordAndEvaluate(h, r.key, recordBaseline(reflectedStore[r.key], r),
                           [seenResponses[r.key] EXCEPT !.baseline = TRUE])

handleReflectedResponse(h, r) ==
    IF r.key = ""
    THEN UNCHANGED <<reflectedStore, seenResponses, respHandler>>
    ELSE RecordAndEvaluate(h, r.key, recordMutated(reflectedStore[r.key], r),
                           [seenResponses[r.key] EXCEPT !.mutated = TRUE])

\* The OnResponse callback of the main collector, up to the reflection
\* handlers.
OnResponse(h, r) ==
    /\ respHandler[h].pc = "idle"
    /\ refOps < MaxRefOps
    /\ refOps' = refOps + 1
    /\ r.reflected => reflected
    /\ IF r.reflected THEN handleReflectedResponse(h, r)
       ELSE handleBaselineReflection(h, r)
    /\ UNCHANGED <<reflected, findings>>

\* The handler, after unlocking: crawler.outputReflection(*finding).
outputReflection(h) ==
    /\ respHandler[h].pc = "output"
    /\ findings' = Append(findings, respHandler[h])
    /\ respHandler' = [respHandler EXCEPT ![h] = [pc |-> "idle"]]
    /\ UNCHANGED <<reflected, reflectedStore, seenResponses, refOps>>

\* queueRequest, its update of the store: the entry of the key is created,
\* and for a reflected request it gets the request's parameter and payload.
queueRequest(key, isMutation, m) ==
    /\ refOps < MaxRefOps
    /\ refOps' = refOps + 1
    /\ reflectedStore' = [reflectedStore EXCEPT ![key] =
           IF isMutation /\ reflected
           THEN [@ EXCEPT !.param = m.param, !.payload = m.payload]
           ELSE @]
    /\ UNCHANGED <<reflected, respHandler, findings, seenResponses>>

RefInit ==
    /\ reflected \in BOOLEAN
    /\ reflectedStore = [k \in RefKeys |-> ensureReflectionEntry]
    /\ respHandler = [h \in RefHandlers |-> [pc |-> "idle"]]
    /\ findings = <<>>
    /\ seenResponses = [k \in RefKeys |-> [baseline |-> FALSE, mutated |-> FALSE]]
    /\ refOps = 0

RefNext ==
    \/ \E h \in RefHandlers, r \in RefResponses :
           OnResponse(h, r) /\ UNCHANGED notRefVars
    \/ \E h \in RefHandlers : outputReflection(h) /\ UNCHANGED notRefVars
    \/ \E k \in RefKeys, b \in BOOLEAN, m \in RefMutations :
           queueRequest(k, b, m) /\ UNCHANGED notRefVars

-----------------------------------------------------------------------------
(* One crawler: Stop(), the requests of the main collector "C" and of the   *)
(* link-finder collector "LF", the hybrid queue with its workers, and       *)
(* Start() waiting for all of them.  Every access to a field shared between *)
(* goroutines is a step of its own.                                         *)

Reqs == {"r1", "r2"}

HybridWorkers == {"w1"}

Collectors == {"C", "LF"}

SiteURL == "site"

HybURLs == {SiteURL, "a", "b"}

queueSizeTwice == IF Cardinality(HybridWorkers) * 4 < 16 THEN 16
                  ELSE Cardinality(HybridWorkers) * 4

\* initializeHybrid: the capacity of hybridQueue.
queueSize == IF Cardinality(HybridWorkers) * 4 < 8 THEN 8
             ELSE Cardinality(HybridWorkers) * 4

\* initializeHybrid: the cap on accepted enqueues.
hybridVisitCap == IF HybridVisitLimit <= 0 THEN 150 ELSE HybridVisitLimit

InFlight(r) == req[r].pc \in {"queued", "sent", "response"}

\* The goroutine that runs the next request of the collectors.
NextReq == CHOOSE r \in Reqs : ~InFlight(r)

\* Goroutine p goes to position pc of enqueueHybrid; "none" is its return.
EnqueueGoto(p, pc) ==
    [enq EXCEPT ![p] = IF pc = "none" THEN [pc |-> "none"]
                       ELSE [@ EXCEPT !.pc = pc]]

\* ---- Stop() ----

StopLoad ==
    /\ stopCall = "idle"
    /\ stopCall' = IF stopped THEN "returned" ELSE "store"
    /\ UNCHANGED <<stopped, stopChanClosed, hybridEnabled, hybridActive,
                   hybridCtxDone, hybridEnqueued, hybridQueue, hybridVisited,
                   req, enq, worker, mainPc, accepted, navigated, crVisits>>

StopStore ==
    /\ stopCall = "store"
    /\ stopped' = TRUE
    /\ stopCall' = "hybrid"
    /\ UNCHANGED <<stopChanClosed, hybridEnabled, hybridActive,
                   hybridCtxDone, hybridEnqueued, hybridQueue, hybridVisited,
                   req, enq, worker, mainPc, accepted, navigated, crVisits>>

\* stopHybrid, called by Stop().
StopHybrid ==
    /\ stopCall = "hybrid"
    /\ stopCall' = "close"
    /\ hybridActive' = IF hybridEnabled THEN FALSE ELSE hybridActive
    /\ hybridCtxDone' = IF hybridEnabled THEN TRUE ELSE hybridCtxDone
    /\ UNCHANGED <<stopped, stopChanClosed, hybridEnabled, hybridEnqueued,
                   hybridQueue, hybridVisited, req, enq, worker, mainPc,
                   accepted, navigated, crVisits>>

StopClose ==
    /\ stopCall = "close"
    /\ stopCall' = "returned"
    /\ stopChanClosed' = TRUE
    /\ UNCHANGED <<stopped, hybridEnabled, hybridActive, hybridCtxDone,
                   hybridEnqueued, hybridQueue, hybridVisited, req, enq,
                   worker, mainPc, accepted, navigated, crVisits>>

\* ---- the collectors ----

\* Start(): crawler.C.Visit(crawler.site.String()).
StartVisit ==
    /\ mainPc = "visit"
    /\ \E r \in Reqs : ~InFlight(r)
    /\ crVisits < MaxVisits
    /\ req' = [req EXCEPT ![NextReq] = [pc |-> "queued", coll |-> "C", url |-> SiteURL]]
    /\ crVisits' = crVisits + 1
    /\ mainPc' = "waitC"
    /\ UNCHANGED <<stopped, stopChanClosed, stopCall, hybridEnabled,
                   hybridActive, hybridCtxDone, hybridEnqueued, hybridQueue,
                   hybridVisited, enq, worker, accepted, navigated>>

\* The OnRequest callback of either collector without its test of stopped.
OnRequestNoAbort(r) ==
    /\ req[r].pc = "queued"
    /\ req' = [req EXCEPT ![r].pc = "sent"]
    /\ UNCHANGED <<stopped, stopChanClosed, stopCall, hybridEnabled,
                   hybridActive, hybridCtxDone, hybridEnqueued, hybridQueue,
                   hybridVisited, enq, worker, mainPc, accepted, navigated,
                   crVisits>>

\* The OnRequest callback of either collector: a stopped crawler aborts the
\* request, which ends it.
OnRequest(r) ==
    /\ req[r].pc = "queued"
    /\ req' = [req EXCEPT ![r] =
           IF stopped THEN [pc |-> "aborted", coll |-> @.coll]
           ELSE [@ EXCEPT !.pc = "sent"]]
    /\ UNCHANGED <<stopped, stopChanClosed, stopCall, hybridEnabled,
                   hybridActive, hybridCtxDone, hybridEnqueued, hybridQueue,
                   hybridVisited, enq, worker, mainPc, accepted, navigated,
                   crVisits>>

\* The request fails (OnError), or its response arrives: a stopped crawler
\* returns at once, and the main collector passes the URL of an HTML response
\* to enqueueHybrid.
Response(r, failed, htmlLike) ==
    /\ req[r].pc = "sent"
    /\ IF failed \/ stopped
       THEN /\ req' = [req EXCEPT ![r] = [pc |-> "done"]]
            /\ UNCHANGED enq
       ELSE /\ req' = [req EXCEPT ![r].pc = "response"]
            /\ enq' = [enq EXCEPT ![r] =
                   IF req[r].coll = "C" /\ htmlLike
                   THEN [pc |-> "guard", url |-> req[r].url]
                   ELSE [pc |-> "none"]]
    /\ UNCHANGED <<stopped, stopChanClosed, stopCall, hybridEnabled,
                   hybridActive, hybridCtxDone, hybridEnqueued, hybridQueue,
                   hybridVisited, worker, mainPc, accepted, navigated,
                   crVisits>>

\* A callback of the response finds a link and visits it on one of the
\* collectors, unless the crawler is stopped.
VisitLink(r, coll, url) ==
    /\ req[r].pc = "response"
    /\ enq[r].pc = "none"
    /\ ~stopped
    /\ \E r2 \in Reqs : ~InFlight(r2)
    /\ crVisits < MaxVisits
    /\ req' = [req EXCEPT ![NextReq] = [pc |-> "queued", coll |-> coll, url |-> url]]
    /\ crVisits' = crVisits + 1
    /\ UNCHANGED <<stopped, stopChanClosed, stopCall, hybridEnabled,
                   hybridActive, hybridCtxDone, hybridEnqueued, hybridQueue,
                   hybridVisited, enq, worker, mainPc, accepted, navigated>>

\* The callbacks of the response have returned.
ResponseDone(r) ==
    /\ req[r].pc = "response"
    /\ enq[r].pc = "none"
    /\ req' = [req EXCEPT ![r] = [pc |-> "done"]]
    /\ UNCHANGED <<stopped, stopChanClosed, stopCall, hybridEnabled,
                   hybridActive, hybridCtxDone, hybridEnqueued, hybridQueue,
                   hybridVisited, enq, worker, mainPc, accepted, navigated,
                   crVisits>>

\* ---- enqueueHybrid, called by goroutine p ----

\* The first test: hybrid mode enabled and active, queue and context set.
EnqueueGuard(p) ==
    /\ enq[p].pc = "guard"
    /\ enq' = EnqueueGoto(p, IF ~hybridEnabled \/ ~hybridActive THEN "none"
                              ELSE "cap")
    /\ UNCHANGED <<stopped, stopChanClosed, stopCall, hybridEnabled,
                   hybridActive, hybridCtxDone, hybridEnqueued, hybridQueue,
                   hybridVisited, req, worker, mainPc, accepted, navigated,
                   crVisits>>

\* The test of the visit limit, and of the blank URL.
EnqueueCap(p) ==
    /\ enq[p].pc = "cap"
    /\ enq' = EnqueueGoto(p,
           IF hybridVisitCap > 0 /\ hybridEnqueued >= hybridVisitCap THEN "none"
           ELSE IF TrimSpace(enq[p].url) = "" THEN "none"
           ELSE "visited")
    /\ UNCHANGED <<stopped, stopChanClosed, stopCall, hybridEnabled,
                   hybridActive, hybridCtxDone, hybridEnqueued, hybridQueue,
                   hybridVisited, req, worker, mainPc, accepted, navigated,
                   crVisits>>

\* hybridVisited.Duplicate(raw).  WaitHybrid sets the filter to nil without
\* synchronisation: the goroutine then skips the test or still uses the filter.
EnqueueVisited(p) ==
    /\ enq[p].pc = "visited"
    /\ LET d == StringFilterDuplicate(hybridVisited, <<TrimSpace(enq[p].url)>>)
       IN  \/ /\ ~hybridEnabled
              /\ enq' = EnqueueGoto(p, "select")
              /\ UNCHANGED hybridVisited
           \/ /\ enq' = EnqueueGoto(p, IF d.dup THEN "none" ELSE "select")
              /\ hybridVisited' = d.set
    /\ UNCHANGED <<stopped, stopChanClosed, stopCall, hybridEnabled,
                   hybridActive, hybridCtxDone, hybridEnqueued, hybridQueue,
                   req, worker, mainPc, accepted, navigated, crVisits>>

\* The select: one of the ready cases, the default when none is ready.
\* WaitHybrid sets hybridCtx and hybridQueue to nil without synchronisation:
\* the goroutine then panics in Done() or still uses the old context and queue.
EnqueueSelect(p) ==
    /\ enq[p].pc = "select"
    /\ \/ /\ ~hybridEnabled
          /\ enq' = EnqueueGoto(p, "panic")
          /\ UNCHANGED <<hybridQueue, accepted>>
       \/ /\ hybridCtxDone \/ stopChanClosed
          /\ enq' = EnqueueGoto(p, "none")
          /\ UNCHANGED <<hybridQueue, accepted>>
       \/ /\ Len(hybridQueue) < queueSize
          /\ hybridQueue' = Append(hybridQueue, TrimSpace(enq[p].url))
          /\ accepted' = accepted \cup {TrimSpace(enq[p].url)}
          /\ enq' = EnqueueGoto(p, "add")
       \/ /\ ~hybridCtxDone /\ ~stopChanClosed
          /\ Len(hybridQueue) >= queueSize
          /\ enq' = EnqueueGoto(p, "none")
          /\ UNCHANGED <<hybridQueue, accepted>>
    /\ UNCHANGED <<stopped, stopChanClosed, stopCall, hybridEnabled,
                   hybridActive, hybridCtxDone, hybridEnqueued, hybridVisited,
                   req, worker, mainPc, navigated, crVisits>>

\* atomic.AddInt64(&crawler.hybridEnqueued, 1), after the send.
EnqueueAdd(p) ==
    /\ enq[p].pc = "add"
    /\ hybridEnqueued' = hybridEnqueued + 1
    /\ enq' = EnqueueGoto(p, "none")
    /\ UNCHANGED <<stopped, stopChanClosed, stopCall, hybridEnabled,
                   hybridActive, hybridCtxDone, hybridQueue, hybridVisited,
                   req, worker, mainPc, accepted, navigated, crVisits>>

\* ---- hybridWorker ----

\* The head of the loop: a stopped crawler ends the worker.  The worker is
\* back here after an iteration, its enqueueHybrid having returned.
WorkerLoop(w) ==
    /\ \/ worker[w].pc = "loop"
       \/ worker[w].pc = "schedule" /\ enq[w].pc = "none"
    /\ worker' = [worker EXCEPT ![w] =
           [pc |-> IF stopped THEN "exited" ELSE "select"]]
    /\ UNCHANGED <<stopped, stopChanClosed, stopCall, hybridEnabled,
                   hybridActive, hybridCtxDone, hybridEnqueued, hybridQueue,
                   hybridVisited, req, enq, mainPc, accepted, navigated,
                   crVisits>>

\* The select of a worker that does not test hybridActive and the URL.
WorkerSelectNoActiveTest(w) ==
    /\ worker[w].pc = "select"
    /\ \/ /\ hybridCtxDone \/ stopChanClosed
          /\ worker' = [worker EXCEPT ![w] = [pc |-> "exited"]]
          /\ UNCHANGED <<hybridQueue, navigated>>
       \/ /\ hybridQueue # <<>>
          /\ hybridQueue' = Tail(hybridQueue)
          /\ worker' = [worker EXCEPT ![w] =
                 [pc |-> "navigate", url |-> Head(hybridQueue)]]
          /\ navigated' = navigated \cup {Head(hybridQueue)}
    /\ UNCHANGED <<stopped, stopChanClosed, stopCall, hybridEnabled,
                   hybridActive, hybridCtxDone, hybridEnqueued, hybridVisited,
                   req, enq, mainPc, accepted, crVisits>>

\* The select: one of the ready cases.  A URL received while hybrid mode is
\* not active is skipped; otherwise NavigateAndAnalyze is called with it.
WorkerSelect(w) ==
    /\ worker[w].pc = "select"
    /\ \/ /\ hybridCtxDone \/ stopChanClosed
          /\ worker' = [worker EXCEPT ![w] = [pc |-> "exited"]]
          /\ UNCHANGED <<hybridQueue, navigated>>
       \/ /\ hybridQueue # <<>>
          /\ hybridQueue' = Tail(hybridQueue)
          /\ IF ~hybridActive \/ Head(hybridQueue) = ""
             THEN /\ worker' = [worker EXCEPT ![w] = [pc |-> "loop"]]
                  /\ UNCHANGED navigated
             ELSE /\ worker' = [worker EXCEPT ![w] =
                         [pc |-> "navigate", url |-> Head(hybridQueue)]]
                  /\ navigated' = navigated \cup {Head(hybridQueue)}
    /\ UNCHANGED <<stopped, stopChanClosed, stopCall, hybridEnabled,
                   hybridActive, hybridCtxDone, hybridEnqueued, hybridVisited,
                   req, enq, mainPc, accepted, crVisits>>

\* NavigateAndAnalyze returns: an error, a result without transitions, or a
\* result with a transition to target, which handleHybridResult gives to
\* scheduleHybridVisit: a visit on the main collector when a goroutine of it
\* is free, then enqueueHybrid.
WorkerAnalyzed(w, outcome, target) ==
    /\ worker[w].pc = "navigate"
    /\ IF outcome \in {"error", "leaf"}
       THEN /\ worker' = [worker EXCEPT ![w] = [pc |-> "loop"]]
            /\ UNCHANGED <<req, enq, crVisits>>
       ELSE /\ worker' = [worker EXCEPT ![w] = [pc |-> "schedule"]]
            /\ enq' = [enq EXCEPT ![w] = [pc |-> "guard", url |-> target]]
            /\ IF (\E r \in Reqs : ~InFlight(r)) /\ crVisits < MaxVisits
               THEN /\ req' = [req EXCEPT ![NextReq] =
                          [pc |-> "queued", coll |-> "C", url |-> target]]
                    /\ crVisits' = crVisits + 1
               ELSE UNCHANGED <<req, crVisits>>
    /\ UNCHANGED <<stopped, stopChanClosed, stopCall, hybridEnabled,
                   hybridActive, hybridCtxDone, hybridEnqueued, hybridQueue,
                   hybridVisited, mainPc, accepted, navigated>>

\* ---- Start(), after its first visit ----

\* crawler.C.Wait(), then crawler.LinkFinderCollector.Wait(): each returns
\* when no request of its collector is in flight.
CollectorWait(coll) ==
    /\ \/ coll = "C" /\ mainPc = "waitC"
       \/ coll = "LF" /\ mainPc = "waitLF"
    /\ \A r \in Reqs : InFlight(r) => req[r].coll # coll
    /\ mainPc' = IF coll = "C" THEN "waitLF" ELSE "waitHybrid"
    /\ UNCHANGED <<stopped, stopChanClosed, stopCall, hybridEnabled,
                   hybridActive, hybridCtxDone, hybridEnqueued, hybridQueue,
                   hybridVisited, req, enq, worker, accepted, navigated,
                   crVisits>>

\* WaitHybrid: returns at once when hybrid mode is off, else calls stopHybrid.
WaitHybridStop ==
    /\ mainPc = "waitHybrid"
    /\ mainPc' = IF hybridEnabled THEN "hybridWG" ELSE "done"
    /\ hybridActive' = IF hybridEnabled THEN FALSE ELSE hybridActive
    /\ hybridCtxDone' = IF hybridEnabled THEN TRUE ELSE hybridCtxDone
    /\ UNCHANGED <<stopped, stopChanClosed, stopCall, hybridEnabled,
                   hybridEnqueued, hybridQueue, hybridVisited, req, enq,
                   worker, accepted, navigated, crVisits>>

\* WaitHybrid: hybridWG.Wait() returns when every worker has ended; the browser
\* pool is shut down and the hybrid fields are set to nil.
WaitHybridShutdown ==
    /\ mainPc = "hybridWG"
    /\ \A w \in HybridWorkers : worker[w].pc = "exited"
    /\ mainPc' = "done"
    /\ hybridEnabled' = FALSE
    /\ hybridVisited' = {}
    /\ UNCHANGED <<stopped, stopChanClosed, stopCall, hybridActive,
                   hybridCtxDone, hybridEnqueued, hybridQueue, req, enq,
                   worker, accepted, navigated, crVisits>>

\* After NewCrawler: with hybrid mode on, initializeHybrid has started the
\* workers and enqueued the site; with it off, or the browser pool failing to
\* start, no worker runs.
CrInit ==
    /\ stopped = FALSE
    /\ stopChanClosed = FALSE
    /\ stopCall = "idle"
    /\ hybridEnabled \in BOOLEAN
    /\ hybridActive = hybridEnabled
    /\ hybridCtxDone = FALSE
    /\ hybridEnqueued = IF hybridEnabled THEN 1 ELSE 0
    /\ hybridQueue = IF hybridEnabled THEN <<SiteURL>> ELSE <<>>
    /\ hybridVisited = IF hybridEnabled THEN {<<SiteURL>>} ELSE {}
    /\ req = [r \in Reqs |-> [pc |-> "done"]]
    /\ enq = [p \in Reqs \cup HybridWorkers |-> [pc |-> "none"]]
    /\ worker = [w \in HybridWorkers |->
                    [pc |-> IF hybridEnabled THEN "loop" ELSE "exited"]]
    /\ mainPc = "visit"
    /\ accepted = IF hybridEnabled THEN {SiteURL} ELSE {}
    /\ navigated = {}
    /\ crVisits = 0

CrNext ==
    \/ StopLoad /\ UNCHANGED notCrVars
    \/ StopStore /\ UNCHANGED notCrVars
    \/ StopHybrid /\ UNCHANGED notCrVars
    \/ StopClose /\ UNCHANGED notCrVars
    \/ StartVisit /\ UNCHANGED notCrVars
    \/ \E r \in Reqs : OnRequest(r) /\ UNCHANGED notCrVars
    \/ \E r \in Reqs, failed, htmlLike \in BOOLEAN :
           Response(r, failed, htmlLike) /\ UNCHANGED notCrVars
    \/ \E r \in Reqs, coll \in Collectors, url \in HybURLs :
           VisitLink(r, coll, url) /\ UNCHANGED notCrVars
    \/ \E r \in Reqs : ResponseDone(r) /\ UNCHANGED notCrVars
    \/ \E p \in Reqs \cup HybridWorkers : EnqueueGuard(p) /\ UNCHANGED notCrVars
    \/ \E p \in Reqs \cup HybridWorkers : EnqueueCap(p) /\ UNCHANGED notCrVars
    \/ \E p \in Reqs \cup HybridWorkers : EnqueueVisited(p) /\ UNCHANGED notCrVars
    \/ \E p \in Reqs \cup HybridWorkers : EnqueueSelect(p) /\ UNCHANGED notCrVars
    \/ \E p \in Reqs \cup HybridWorkers : EnqueueAdd(p) /\ UNCHANGED notCrVars
    \/ \E w \in HybridWorkers : WorkerLoop(w) /\ UNCHANGED notCrVars
    \/ \E w \in HybridWorkers : WorkerSelect(w) /\ UNCHANGED notCrVars
    \/ \E w \in HybridWorkers, o \in {"error", "leaf", "transition"},
          t \in HybURLs :
           WorkerAnalyzed(w, o, t) /\ UNCHANGED notCrVars
    \/ \E coll \in Collectors : CollectorWait(coll) /\ UNCHANGED notCrVars
    \/ WaitHybridStop /\ UNCHANGED notCrVars
    \/ WaitHybridShutdown /\ UNCHANGED notCrVars

-----------------------------------------------------------------------------
(* The site scheduler of runRoot: the feeder, the site workers, the drain   *)
(* goroutine and the signal handler.  A crawler is named by the index of    *)
(* its site.  Each worker remembers the sites it received (taken) and the   *)
(* sites it started a crawler for (crawled).                                *)

SiteWorkers == 1 .. Threads

\* The site list: the third site is one url.Parse rejects.
siteList == [i \in 1 .. NumSites |-> IF i = 3 THEN "%zz" ELSE "site"]

\* The signal goroutine receives SIGINT or SIGTERM and cancels the context.
Signal ==
    /\ ~ctxDone
    /\ runPc = "wait"
    /\ ctxDone' = TRUE
    /\ UNCHANGED <<inputChan, feeder, siteWorker, activeCrawlers, stopCalled,
                   drainPc, runPc>>

\* The feeder sends the next site when inputChan has room.
FeederSend ==
    /\ ~feeder.closed
    /\ feeder.next <= NumSites
    /\ Len(inputChan) < Threads
    /\ inputChan' = Append(inputChan, feeder.next)
    /\ feeder' = [feeder EXCEPT !.next = @ + 1]
    /\ UNCHANGED <<ctxDone, siteWorker, activeCrawlers, stopCalled, drainPc,
                   runPc>>

\* The feeder returns, at the end of the list or on a cancelled context, and
\* its deferred close(inputChan) runs.
FeederClose ==
    /\ ~feeder.closed
    /\ feeder.next > NumSites \/ ctxDone
    /\ feeder' = [feeder EXCEPT !.closed = TRUE]
    /\ UNCHANGED <<ctxDone, inputChan, siteWorker, activeCrawlers, stopCalled,
                   drainPc, runPc>>

\* The worker returns: its deferred functions delete the crawlers it made from
\* activeCrawlers.
WorkerReturn(w) ==
    /\ siteWorker' = [siteWorker EXCEPT ![w] =
           [pc |-> "exited", made |-> {}, taken |-> siteWorker[w].taken,
            crawled |-> siteWorker[w].crawled]]
    /\ activeCrawlers' = activeCrawlers \ siteWorker[w].made

\* A range over inputChan that does not end when the channel is closed.
WorkerReceiveNoClose(w) ==
    /\ siteWorker[w].pc = "recv"
    /\ inputChan # <<>>
    /\ inputChan' = Tail(inputChan)
    /\ siteWorker' = [siteWorker EXCEPT ![w].pc = "check",
                                        ![w].site = Head(inputChan),
                                        ![w].taken =
                                            Append(@, Head(inputChan))]
    /\ UNCHANGED activeCrawlers
    /\ UNCHANGED <<ctxDone, feeder, stopCalled, drainPc, runPc>>

\* A receive that leaves the site in inputChan.
WorkerReceivePeek(w) ==
    /\ siteWorker[w].pc = "recv"
    /\ \/ /\ inputChan # <<>>
          /\ UNCHANGED inputChan
          /\ siteWorker' = [siteWorker EXCEPT ![w].pc = "check",
                                              ![w].site = Head(inputChan),
                                              ![w].taken =
                                                  Append(@, Head(inputChan))]
          /\ UNCHANGED activeCrawlers
       \/ /\ inputChan = <<>> /\ feeder.closed
          /\ WorkerReturn(w)
          /\ UNCHANGED inputChan
    /\ UNCHANGED <<ctxDone, feeder, stopCalled, drainPc, runPc>>

\* for rawSite := range inputChan: the next site, or the end of the loop on a
\* closed and empty channel.
WorkerReceive(w) ==
    /\ siteWorker[w].pc = "recv"
    /\ \/ /\ inputChan # <<>>
          /\ inputChan' = Tail(inputChan)
          /\ siteWorker' = [siteWorker EXCEPT ![w].pc = "check",
                                              ![w].site = Head(inputChan),
                                              ![w].taken =
                                                  Append(@, Head(inputChan))]
          /\ UNCHANGED activeCrawlers
       \/ /\ inputChan = <<>> /\ feeder.closed
          /\ WorkerReturn(w)
          /\ UNCHANGED inputChan
    /\ UNCHANGED <<ctxDone, feeder, stopCalled, drainPc, runPc>>

\* if ctx.Err() != nil { return }, then url.Parse: a site that does not parse
\* is skipped.
WorkerCheck(w) ==
    /\ siteWorker[w].pc = "check"
    /\ IF ctxDone THEN WorkerReturn(w)
       ELSE /\ siteWorker' = [siteWorker EXCEPT ![w].pc =
                   IF siteList[siteWorker[w].site] = "%zz" THEN "recv"
                   ELSE "new"]
            /\ UNCHANGED activeCrawlers
    /\ UNCHANGED <<ctxDone, inputChan, feeder, stopCalled, drainPc, runPc>>

\* core.NewCrawler, then the crawler is put into activeCrawlers and its
\* goroutines are started.
WorkerRegister(w) ==
    /\ siteWorker[w].pc = "new"
    /\ activeCrawlers' = activeCrawlers \cup {siteWorker[w].site}
    /\ siteWorker' = [siteWorker EXCEPT ![w].pc = "crawl",
                                        ![w].made = @ \cup {siteWorker[w].site},
                                        ![w].crawled =
                                            Append(@, siteWorker[w].site)]
    /\ UNCHANGED <<ctxDone, inputChan, feeder, stopCalled, drainPc, runPc>>

\* The crawl of the site has ended: siteWg.Wait(), the Wait() of the
\* collectors and WaitHybrid() have returned.
WorkerCrawled(w) ==
    /\ siteWorker[w].pc = "crawl"
    /\ siteWorker' = [siteWorker EXCEPT ![w].pc = "recv"]
    /\ UNCHANGED <<ctxDone, inputChan, feeder, activeCrawlers, stopCalled,
                   drainPc, runPc>>

\* The drain goroutine: after <-ctx.Done() and its sleep it calls Stop() on
\* the crawlers in activeCrawlers, holding crawlerMutex, and ends.
DrainStop ==
    /\ drainPc = "waiting"
    /\ ctxDone
    /\ stopCalled' = stopCalled \cup activeCrawlers
    /\ drainPc' = "done"
    /\ UNCHANGED <<ctxDone, inputChan, feeder, siteWorker, activeCrawlers,
                   runPc>>

\* runRoot: wg.Wait() returns when every worker has returned, then cancel().
RunReturn ==
    /\ runPc = "wait"
    /\ \A w \in SiteWorkers : siteWorker[w].pc = "exited"
    /\ runPc' = "returned"
    /\ ctxDone' = TRUE
    /\ UNCHANGED <<inputChan, feeder, siteWorker, activeCrawlers, stopCalled,
                   drainPc>>

SchedInit ==
    /\ ctxDone = FALSE
    /\ inputChan = <<>>
    /\ feeder = [next |-> 1, closed |-> FALSE]
    /\ siteWorker = [w \in SiteWorkers |->
                        [pc |-> "recv", site |-> 0, made |-> {},
                         taken |-> <<>>, crawled |-> <<>>]]
    /\ activeCrawlers = {}
    /\ stopCalled = {}
    /\ drainPc = "waiting"
    /\ runPc = "wait"

\* A goroutine that can take a step takes one: the feeder at its select
\* once the context is cancelled or the list has ended, a worker at its
\* receive, its test and the start of its crawler, and runRoot after
\* wg.Wait().  Every crawl ends (WorkerCrawled).
SchedFairness ==
    /\ WF_vars(FeederClose /\ UNCHANGED notSchedVars)
    /\ WF_vars(RunReturn /\ UNCHANGED notSchedVars)
    /\ \A w \in SiteWorkers :
           /\ WF_vars(WorkerReceive(w) /\ UNCHANGED notSchedVars)
           /\ WF_vars(WorkerCheck(w) /\ UNCHANGED notSchedVars)
           /\ WF_vars(WorkerRegister(w) /\ UNCHANGED notSchedVars)
           /\ WF_vars(WorkerCrawled(w) /\ UNCHANGED notSchedVars)

SchedNext ==
    \/ Signal /\ UNCHANGED notSchedVars
    \/ FeederSend /\ UNCHANGED notSchedVars
    \/ FeederClose /\ UNCHANGED notSchedVars
    \/ \E w \in SiteWorkers : WorkerReceive(w) /\ UNCHANGED notSchedVars
    \/ \E w \in SiteWorkers : WorkerCheck(w) /\ UNCHANGED notSchedVars
    \/ \E w \in SiteWorkers : WorkerRegister(w) /\ UNCHANGED notSchedVars
    \/ \E w \in SiteWorkers : WorkerCrawled(w) /\ UNCHANGED notSchedVars
    \/ DrainStop /\ UNCHANGED notSchedVars
    \/ RunReturn /\ UNCHANGED notSchedVars

-----------------------------------------------------------------------------
(* Functions without state of their own, each applied to arguments drawn   *)
(* from a bounded set.                                                     *)

\* URLs for canonicalRequestKey: https://ex.com/a?a=1&b=2 with its scheme in
\* either case or http, host in either case, with and without a port and a
\* fragment, and with five queries: two orders of the keys, a repeated value,
\* and two orders of a query with an invalid escape.
KeyURLs ==
    {[kind |-> "url", scheme |-> sp[1], host |-> h, port |-> sp[2],
      path |-> <<"a">>, slash |-> FALSE, query |-> q, frag |-> f] :
        sp \in {<<"https", "">>, <<"HTTPS", "443">>, <<"http", "80">>,
                <<"http", "">>},
        h \in {"ex.com", "EX.com"},
        f \in {"", "frag"},
        q \in {<< <<"a", "1">>, <<"b", "2">> >>,
               << <<"b", "2">>, <<"a", "1">> >>,
               << <<"b", "2">>, <<"a", "1">>, <<"b", "2">> >>,
               << <<"a", "1">>, <<"b", "%zz">> >>,
               << <<"b", "%zz">>, <<"a", "1">> >>}}

\* canonicalRequestKey applied to two URLs with the same method and body.
CallCanonicalRequestKey(method, u, u2, body) ==
    /\ call.fn = "none"
    /\ call' = [fn |-> "canonicalRequestKey", u |-> u, u2 |-> u2,
                key |-> canonicalRequestKey(method, u, body),
                key2 |-> canonicalRequestKey(method, u2, body)]

\* The headers of a synthetic request, in the order the map gives them to
\* range: up to two headers with different names.
HeaderLists ==
    LET Headers == {"X-A", "x-a", "X-B"} \X {"1", "2"}
    IN  {<<>>} \cup {<<h>> : h \in Headers}
        \cup {p \in Headers \X Headers : p[1][1] # p[2][1]}

\* buildRequestKey.  The header names are lower-cased and sorted, and the
\* value of each is then read from sr.Headers under the lower-cased name:
\* the map has no such entry, and the value read is "", unless the name was
\* lower-case already.
buildRequestKey(sr) ==
    LET keys == SortStrings([i \in DOMAIN sr.Headers |->
                                 ToLower(sr.Headers[i][1])])
        HeaderValue(k) ==
            IF \E i \in DOMAIN sr.Headers : sr.Headers[i][1] = k
            THEN sr.Headers[CHOOSE i \in DOMAIN sr.Headers :
                                 sr.Headers[i][1] = k][2]
            ELSE ""
        RECURSIVE Written(_)
        Written(ks) ==
            IF ks = <<>> THEN <<>>
            ELSE <<" ", Head(ks), "=", HeaderValue(Head(ks))>>
                 \o Written(Tail(ks))
    IN  <<sr.Method, " ", sr.RawURL, " ", sr.Body>>
        \o Written(keys)
        \o (IF sr.ContentType # "" THEN <<" ct=", sr.ContentType>> ELSE <<>>)

\* buildRequestKey applied to two requests with the same method, URL, body and
\* content type.
CallBuildRequestKey(headers, headers2, contentType) ==
    LET sr == [Method |-> "POST", RawURL |-> "u", Body |-> "x",
                Headers |-> headers, ContentType |-> contentType]
    IN  /\ call.fn = "none"
        /\ call' = [fn |-> "buildRequestKey", sr |-> sr,
                    sr2 |-> [sr EXCEPT !.Headers = headers2],
                    key |-> buildRequestKey(sr),
                    key2 |-> buildRequestKey([sr EXCEPT !.Headers = headers2])]

CallNext ==
    \/ \E h, h2 \in HeaderLists, ct \in {"", "json"} :
           CallBuildRequestKey(h, h2, ct) /\ UNCHANGED notCallVars
    \/ \E u, u2 \in KeyURLs :
           CallCanonicalRequestKey(" get ", u, u2, " x ") /\ UNCHANGED notCallVars

\* ---- NormalizeURL (linkfinder) ----

\* The largest number of segments hasPathLoops lets through.
MaxPathSegments == 128

\* The largest number of bytes of a cleaned path.
MaxPathBytes == 2048

\* equalSegmentSlices.
equalSegmentSlices(a, b) ==
    /\ Len(a) = Len(b)
    /\ \A i \in DOMAIN a : a[i] = b[i]

\* hasRepeatedCycle: from some start (counted from 0), the block of cycleLen
\* segments is followed by copies of itself until threshold blocks are seen.
hasRepeatedCycle(segments, cycleLen, threshold) ==
    LET n == Len(segments)
        limit == n - cycleLen * threshold
        Block(pos) == SubSeq(segments, pos + 1, pos + cycleLen)
        RECURSIVE Inner(_, _, _)
        Inner(start, pos, repeats) ==
            IF pos + cycleLen > n THEN FALSE
            ELSE IF equalSegmentSlices(Block(start), Block(pos))
                 THEN IF repeats + 1 >= threshold THEN TRUE
                      ELSE Inner(start, pos + cycleLen, repeats + 1)
            ELSE FALSE
    IN  IF limit < 0 THEN FALSE
        ELSE \E start \in 0..limit : Inner(start, start + cycleLen, 1)

\* The loop of hasPathLoops over consecutive equal segments: repeat, after
\* the segment at i is compared, is the length of the run of equal segments
\* that ends at i, and the loop returns true once it is maxRepeat = 3.
hasRepeatedSegment(lower) ==
    LET RunStart(i) ==
            CHOOSE j \in 1..i :
                /\ j = 1 \/ lower[j] # lower[j - 1]
                /\ \A k \in (j + 1)..i : lower[k] = lower[k - 1]
        repeat(i) == i - RunStart(i) + 1
    IN  \E i \in 2..Len(lower) : repeat(i) >= 3

hasPathLoopsNoLimit(segments) ==
    LET lower == [i \in DOMAIN segments |-> ToLower(segments[i])]
    IN  \/ hasRepeatedSegment(lower)
        \/ \E cycleLen \in 2..4 :
               /\ cycleLen * 3 <= Len(lower)
               /\ hasRepeatedCycle(lower, cycleLen, 3)

hasPathLoopsNoCycles(segments) ==
    IF Len(segments) > MaxPathSegments THEN TRUE
    ELSE LET lower == [i \in DOMAIN segments |-> ToLower(segments[i])]
         IN  hasRepeatedSegment(lower)

\* hasPathLoops.
hasPathLoops(segments) ==
    IF Len(segments) > MaxPathSegments THEN TRUE
    ELSE LET lower == [i \in DOMAIN segments |-> ToLower(segments[i])]
         IN  \/ hasRepeatedSegment(lower)
             \/ \E cycleLen \in 2..4 :
                    /\ cycleLen * 3 <= Len(lower)
                    /\ hasRepeatedCycle(lower, cycleLen, 3)

\* len("/" + strings.Join(segments, "/")), summed by halves.
RECURSIVE PathBytes(_)
PathBytes(segments) ==
    IF segments = <<>> THEN 0
    ELSE IF Len(segments) = 1 THEN 1 + Len(segments[1])
    ELSE LET half == Len(segments) \div 2
         IN  PathBytes(SubSeq(segments, 1, half))
             + PathBytes(SubSeq(segments, half + 1, Len(segments)))

\* The loop of cleanPath over the parts: "" and "." are skipped, ".." drops
\* the last segment if there is one, any other part is appended.  The loop
\* is computed by halves: a run of parts drops `drop` of the segments that
\* are there before it and then appends `keep`.
RECURSIVE cleanPathParts(_)
cleanPathParts(parts) ==
    IF parts = <<>> THEN [drop |-> 0, keep |-> <<>>]
    ELSE IF Len(parts) = 1
         THEN IF parts[1] \in {"", "."} THEN [drop |-> 0, keep |-> <<>>]
              ELSE IF parts[1] = ".." THEN [drop |-> 1, keep |-> <<>>]
              ELSE [drop |-> 0, keep |-> parts]
    ELSE LET half == Len(parts) \div 2
             l == cleanPathParts(SubSeq(parts, 1, half))
             r == cleanPathParts(SubSeq(parts, half + 1, Len(parts)))
         IN  IF r.drop <= Len(l.keep)
             THEN [drop |-> l.drop,
                   keep |-> SubSeq(l.keep, 1, Len(l.keep) - r.drop) \o r.keep]
             ELSE [drop |-> l.drop + (r.drop - Len(l.keep)), keep |-> r.keep]

\* cleanPath on a path given as the parts between its slashes and whether it
\* ends in a slash.  The result is the cleaned path in the same form.
cleanPath(parts, trailingSlash) ==
    LET segments == cleanPathParts(parts).keep
    IN  IF segments = <<>> THEN [ok |-> TRUE, path |-> <<>>, slash |-> FALSE]
        ELSE IF hasPathLoops(segments)
             THEN [ok |-> FALSE, path |-> <<>>, slash |-> FALSE]
        ELSE IF PathBytes(segments) > MaxPathBytes
             THEN [ok |-> FALSE, path |-> <<>>, slash |-> FALSE]
        ELSE [ok |-> TRUE, path |-> segments, slash |-> trailingSlash]

\* hasRecursiveQuery: false without a query; with one, true when the host or
\* an absolute URL occurs three times among the values.
hasRecursiveQuery(u) ==
    IF u.query = <<>> THEN FALSE
    ELSE \/ Cardinality({i \in DOMAIN u.query :
                            ToLower(u.query[i][2]) = ToLower(u.host)}) >= 3
         \/ Cardinality({i \in DOMAIN u.query :
                            u.query[i][2] \in {"http://", "https://"}}) >= 3

\* shouldExclude on the segments the model uses: a segment holding one of
\* linkExclusionFragments, or a last segment with one of
\* fileExtensionExclusions.
shouldExclude(u) ==
    \/ \E i \in DOMAIN u.path : ToLower(u.path[i]) = "wp-content"
    \/ u.path # <<>> /\ ~u.slash /\ ToLower(u.path[Len(u.path)]) = "x.png"

\* NormalizeURL(nil, candidate) for a candidate that url.Parse turns into u;
\* the result is <<string, ok>>.
NormalizeURL(u) ==
    IF u.kind # "url" THEN <<"", FALSE>>
    ELSE IF u.host = "" THEN <<"", FALSE>>
    ELSE LET cleanedPath == cleanPath(u.path, u.slash)
             resolved == [u EXCEPT !.frag = "", !.path = cleanedPath.path,
                                   !.slash = cleanedPath.slash]
         IN  IF ~cleanedPath.ok THEN <<"", FALSE>>
             ELSE IF hasRecursiveQuery(resolved) THEN <<"", FALSE>>
             ELSE IF shouldExclude(resolved) THEN <<"", FALSE>>
             ELSE <<URLString(resolved), TRUE>>

\* The longest path made of the short segments below.
MaxPathLen == 5

\* Paths for NormalizeURL: every path of up to MaxPathLen parts out of a, A,
\* b and "..", paths of distinct segments around MaxPathSegments, cycles of
\* two to four segments twice and three times in a row, /a/b/a/b/a/b/c,
\* and two paths that are excluded.
PathInputs ==
    LET Short == UNION {[1..n -> {"a", "A", "b", ".."}] : n \in 0..MaxPathLen}
        Long == {[i \in 1..n |-> ToString(i)] :
                     n \in (MaxPathSegments - 1)..(MaxPathSegments + 2)}
        Cycles == {<<"a", "B">>, <<"a", "b", "c">>, <<"a", "b", "c", "d">>,
                   <<"a", "b", "a", "c">>, <<"a", "a", "b", "B">>}
        Around == {<<>>, <<"x">>}
    IN  Short \cup Long
        \cup {[i \in 1..MaxPathSegments |-> ToString(i)]
                  \o <<"..", "z", "..", "y">>}
        \cup {pre \o c \o c \o suf : pre \in Around, suf \in Around,
                                      c \in Cycles}
        \cup {pre \o c \o c \o c \o suf : pre \in Around, suf \in Around,
                                           c \in Cycles}
        \cup {pre \o c \o c \o <<"x">> \o c : pre \in Around, c \in Cycles}
        \cup {<<"a", "b", "a", "b", "a", "b", "c">>}
        \cup {<<"wp-content", "a">>, <<"a", "x.png">>}

\* NormalizeURL applied to http://t/<path>.
CallNormalizeURL(path, slash) ==
    LET u == [kind |-> "url", scheme |-> "http", host |-> "t", port |-> "",
              path |-> path, slash |-> slash, query |-> <<>>, frag |-> ""]
    IN  /\ call.fn = "none"
        /\ call' = [fn |-> "NormalizeURL", u |-> u,
                    ok |-> NormalizeURL(u)[2], out |-> NormalizeURL(u)[1]]

PathNext ==
    \E path \in PathInputs, slash \in BOOLEAN :
        CallNormalizeURL(path, slash) /\ UNCHANGED notCallVars

-----------------------------------------------------------------------------
(* The backoff counters of one crawler.  recordBackoff is called by the     *)
(* response and error callbacks of the collector, which run on several      *)
(* goroutines; the counters are read and written under backoffMutex, and    *)
(* the sleep follows after the unlock.                                      *)

BackoffCallers == {"g1", "g2"}

\* Status codes: two that count as success, 429, 403, another client error
\* and 0, the status of a transport error.
Statuses == {200, 399, 400, 403, 429, 0}

minInt(a, b) == IF a < b THEN a ELSE b

\* The counters after recordBackoff(status) and the seconds it sleeps.
recordBackoffKeep403(b, status) ==
    IF status >= 200 /\ status < 400
    THEN [c429 |-> 0, c403 |-> b.backoff403, cErr |-> 0, sleep |-> 0]
    ELSE IF status = 429
         THEN [c429 |-> b.backoff429 + 1, c403 |-> b.backoff403,
               cErr |-> b.backoffError,
               sleep |-> minInt(b.backoff429 + 1, 5)]
    ELSE IF status = 403
         THEN [c429 |-> b.backoff429, c403 |-> b.backoff403 + 1,
               cErr |-> b.backoffError,
               sleep |-> IF (b.backoff403 + 1) % 3 = 0 THEN 2 ELSE 0]
    ELSE [c429 |-> b.backoff429, c403 |-> b.backoff403,
          cErr |-> b.backoffError + 1,
          sleep |-> IF (b.backoffError + 1) % 5 = 0 THEN 2 ELSE 0]

recordBackoffSleepBefore(b, status) ==
    IF status >= 200 /\ status < 400
    THEN [c429 |-> 0, c403 |-> 0, cErr |-> 0, sleep |-> 0]
    ELSE IF status = 429
         THEN [c429 |-> b.backoff429 + 1, c403 |-> b.backoff403,
               cErr |-> b.backoffError,
               sleep |-> minInt(b.backoff429, 5)]
    ELSE IF status = 403
         THEN [c429 |-> b.backoff429, c403 |-> b.backoff403 + 1,
               cErr |-> b.backoffError,
               sleep |-> IF (b.backoff403 + 1) % 3 = 0 THEN 2 ELSE 0]
    ELSE [c429 |-> b.backoff429, c403 |-> b.backoff403,
          cErr |-> b.backoffError + 1,
          sleep |-> IF (b.backoffError + 1) % 5 = 0 THEN 2 ELSE 0]

recordBackoff(b, status) ==
    IF status >= 200 /\ status < 400
    THEN [c429 |-> 0, c403 |-> 0, cErr |-> 0, sleep |-> 0]
    ELSE IF status = 429
         THEN [c429 |-> b.backoff429 + 1, c403 |-> b.backoff403,
               cErr |-> b.backoffError,
               sleep |-> minInt(b.backoff429 + 1, 5)]
    ELSE IF status = 403
         THEN [c429 |-> b.backoff429, c403 |-> b.backoff403 + 1,
               cErr |-> b.backoffError,
               sleep |-> IF (b.backoff403 + 1) % 3 = 0 THEN 2 ELSE 0]
    ELSE [c429 |-> b.backoff429, c403 |-> b.backoff403,
          cErr |-> b.backoffError + 1,
          sleep |-> IF (b.backoffError + 1) % 5 = 0 THEN 2 ELSE 0]

\* Goroutine g calls recordBackoff(status): the locked part.  since429 counts
\* the 429s since the last status below 400 (or the start).
RecordBackoff(g, status) ==
    LET r == recordBackoff(backoff, status)
    IN  /\ g \notin backoff.sleeping
        /\ backoff.ops < MaxBackoffOps
        /\ backoff' =
              [backoff429 |-> r.c429, backoff403 |-> r.c403,
               backoffError |-> r.cErr,
               sleeping |-> IF r.sleep > 0 THEN backoff.sleeping \cup {g}
                            ELSE backoff.sleeping,
               ops |-> backoff.ops + 1,
               since429 |-> IF status >= 200 /\ status < 400 THEN 0
                            ELSE IF status = 429 THEN backoff.since429 + 1
                            ELSE backoff.since429,
               last |-> [status |-> status, sleep |-> r.sleep,
                         before |-> <<backoff.backoff429, backoff.backoff403,
                                      backoff.backoffError>>]]

\* time.Sleep returns in goroutine g.
BackoffWake(g) ==
    /\ g \in backoff.sleeping
    /\ backoff' = [backoff EXCEPT !.sleeping = @ \ {g}]

BackoffInit ==
    backoff = [backoff429 |-> 0, backoff403 |-> 0, backoffError |-> 0,
               sleeping |-> {}, ops |-> 0, since429 |-> 0,
               last |-> [status |-> -1, sleep |-> 0, before |-> <<0, 0, 0>>]]

BackoffNext ==
    \/ \E g \in BackoffCallers, status \in Statuses :
           RecordBackoff(g, status) /\ UNCHANGED notBackoffVars
    \/ \E g \in BackoffCallers : BackoffWake(g) /\ UNCHANGED notBackoffVars

-----------------------------------------------------------------------------
(* The application state graph.  Every method takes g.mu for its whole      *)
(* body, so a call is one step whichever goroutine makes it; the goroutine  *)
(* is recorded for AddState only.  The times of the nodes and transitions   *)
(* are left out.                                                            *)

GraphCallers == {"g1", "g2"}

StateHashes == {"h1", "h2"}

\* Transitions handed to RegisterTransitions: an action type in two cases
\* and a blank one, details that differ in the case of a key and in the
\* space around a value, and details with two keys.  Details is a set of
\* <<key, value>>.
Transitions ==
    {[ActionType |-> td[1], Details |-> td[2], DestinationHash |-> ""] :
        td \in {<<"click", {}>>, <<" ", {}>>,
                <<"click", {<<"a", "1">>}>>, <<"Click", {<<"A", " 1 ">>}>>,
                <<"click", {<<"b", "2">>, <<"a", "1">>}>>}}

\* The node with the given hash, as a set of no or one node.
NodesOf(nodes, stateHash) == {n \in nodes : n.StateHash = stateHash}

\* AddState: the nodes after the call and the value returned.
addStateNoStore(nodes, stateHash, url) ==
    IF NodesOf(nodes, stateHash) = {}
    THEN [nodes |-> nodes, ret |-> TRUE]
    ELSE LET node == CHOOSE n \in nodes : n.StateHash = stateHash
             seen == [node EXCEPT
                        !.VisitCount = @ + 1,
                        !.PrimaryURL = IF url # "" /\ @ = "" THEN url ELSE @,
                        !.URLs = IF url # "" THEN @ \cup {url} ELSE @]
         IN  [nodes |-> (nodes \ {node}) \cup {seen}, ret |-> FALSE]

addState(nodes, stateHash, url) ==
    IF NodesOf(nodes, stateHash) = {}
    THEN [nodes |-> nodes \cup
                    {[StateHash |-> stateHash, PrimaryURL |-> url,
                      URLs |-> IF url # "" THEN {url} ELSE {},
                      VisitCount |-> 1, Analyzed |-> FALSE]},
          ret |-> TRUE]
    ELSE LET node == CHOOSE n \in nodes : n.StateHash = stateHash
             seen == [node EXCEPT
                        !.VisitCount = @ + 1,
                        !.PrimaryURL = IF url # "" /\ @ = "" THEN url ELSE @,
                        !.URLs = IF url # "" THEN @ \cup {url} ELSE @]
         IN  [nodes |-> (nodes \ {node}) \cup {seen}, ret |-> FALSE]

\* Goroutine c calls AddState.  added and calls count, for each hash, the
\* calls that returned true and all calls.
AddState(c, stateHash, url) ==
    LET r == addState(graph.nodes, stateHash, url)
    IN  /\ graph.ops < MaxGraphOps
        /\ graph' = [graph EXCEPT
                       !.nodes = r.nodes,
                       !.ops = @ + 1,
                       !.added[stateHash] = IF r.ret THEN @ + 1 ELSE @,
                       !.calls[stateHash] = @ + 1,
                       !.last = [fn |-> "AddState", caller |-> c,
                                 hash |-> stateHash, ret |-> r.ret,
                                 existed |-> NodesOf(graph.nodes, stateHash) # {}]]

\* MarkAnalyzed: the nodes after the call.
markAnalyzed(nodes, stateHash) ==
    {IF n.StateHash = stateHash THEN [n EXCEPT !.Analyzed = TRUE] ELSE n :
         n \in nodes}

MarkAnalyzed(stateHash) ==
    /\ graph.ops < MaxGraphOps
    /\ graph' = [graph EXCEPT
                   !.nodes = markAnalyzed(graph.nodes, stateHash),
                   !.ops = @ + 1,
                   !.last = [fn |-> "MarkAnalyzed", hash |-> stateHash]]

\* The keys of a Details map in the order of sort.Strings.
DetailKeys(details) ==
    LET RECURSIVE Sorted(_)
        Sorted(ks) ==
            IF ks = {} THEN <<>>
            ELSE LET k == CHOOSE x \in ks :
                              \A y \in ks : ByteRank(x) <= ByteRank(y)
                 IN  <<k>> \o Sorted(ks \ {k})
    IN  Sorted({kv[1] : kv \in details})

\* transitionKey; the empty key is <<>>.
transitionKeyNoBlank(t) ==
    LET keys == DetailKeys(t.Details)
        Value(k) == (CHOOSE kv \in t.Details : kv[1] = k)[2]
        RECURSIVE Written(_)
        Written(ks) ==
            IF ks = <<>> THEN <<>>
            ELSE <<"|", ToLower(Head(ks)), "=", TrimSpace(Value(Head(ks)))>>
                 \o Written(Tail(ks))
    IN  <<ToLower(t.ActionType)>> \o Written(keys)

transitionKey(t) ==
    IF TrimSpace(t.ActionType) = "" THEN <<>>
    ELSE LET keys == DetailKeys(t.Details)
             Value(k) == (CHOOSE kv \in t.Details : kv[1] = k)[2]
             RECURSIVE Written(_)
             Written(ks) ==
                 IF ks = <<>> THEN <<>>
                 ELSE <<"|", ToLower(Head(ks)), "=",
                        TrimSpace(Value(Head(ks)))>>
                      \o Written(Tail(ks))
         IN  <<ToLower(t.ActionType)>> \o Written(keys)

\* The loop of RegisterTransitions: the store, a set of [key, t], and the
\* count of added transitions after the transitions of the list.
RECURSIVE registerTransitions(_, _, _)
registerTransitions(store, added, transitions) ==
    IF transitions = <<>> THEN [store |-> store, added |-> added]
    ELSE LET t == Head(transitions)
             key == transitionKey(t)
         IN  IF key = <<>>
             THEN registerTransitions(store, added, Tail(transitions))
             ELSE IF \E e \in store : e.key = key
                  THEN registerTransitions(store, added, Tail(transitions))
             ELSE registerTransitions(store \cup {[key |-> key, t |-> t]},
                                      added + 1, Tail(transitions))

RegisterTransitions(stateHash, transitions) ==
    LET r == registerTransitions(graph.transitions[stateHash], 0, transitions)
    IN  /\ graph.ops < MaxGraphOps
        /\ graph' = [graph EXCEPT
                       !.transitions[stateHash] = r.store,
                       !.ops = @ + 1,
                       !.last = [fn |-> "RegisterTransitions",
                                 hash |-> stateHash, ret |-> r.added,
                                 before |-> graph.transitions[stateHash],
                                 transitions |-> transitions]]

UpdateTransitionDestination(stateHash, identity, destinationHash) ==
    /\ graph.ops < MaxGraphOps
    /\ graph' = [graph EXCEPT
                   !.transitions[stateHash] =
                       {IF e.key = identity
                        THEN [e EXCEPT !.t.DestinationHash = destinationHash]
                        ELSE e : e \in @},
                   !.ops = @ + 1,
                   !.last = [fn |-> "UpdateTransitionDestination",
                             hash |-> stateHash]]

GraphInit ==
    graph = [nodes |-> {}, transitions |-> [h \in StateHashes |-> {}],
             ops |-> 0, added |-> [h \in StateHashes |-> 0],
             calls |-> [h \in StateHashes |-> 0], last |-> [fn |-> "none"]]

GraphNext ==
    \/ \E c \in GraphCallers, h \in StateHashes, url \in {"", "u1"} :
           AddState(c, h, url) /\ UNCHANGED notGraphVars
    \/ \E h \in StateHashes : MarkAnalyzed(h) /\ UNCHANGED notGraphVars
    \/ \E h \in StateHashes,
          ts \in {<<>>} \cup {<<t>> : t \in Transitions}
                 \cup {<<t1, t2>> : t1 \in Transitions, t2 \in Transitions} :
           RegisterTransitions(h, ts) /\ UNCHANGED notGraphVars
    \/ \E h \in StateHashes : \E e \in graph.transitions[h] :
           UpdateTransitionDestination(h, e.key, "h2")
           /\ UNCHANGED notGraphVars

-----------------------------------------------------------------------------
(* The hybrid queue of a crawler started without --hybrid-max-visits, so    *)
(* that the visit limit is 150 and the queue can fill up.  Two callbacks    *)
(* call enqueueHybrid with URLs "1", "2", ... in this order, with "1"       *)
(* again, or with a URL that was dropped and not accepted since (dropped);  *)
(* a worker receives; Stop() may be called.                                 *)

HqCallers == {"r1", "r2"}

\* cfg.HybridVisitLimit <= 0: the visit limit initializeHybrid falls back to.
DefaultHybridVisitCap == 150

\* enqueueHybrid(raw) by goroutine p, up to the select: the tests of the
\* fields, of the visit limit, of the blank URL and of hybridVisited.
enqueueHybridTests(p, raw) ==
    LET d == StringFilterDuplicate(hq.visited, <<TrimSpace(raw)>>)
        fresh == IF raw = ToString(hq.fresh) THEN hq.fresh + 1 ELSE hq.fresh
    IN  /\ hq.pc[p] = "none"
        /\ hq.calls < MaxHybridCalls
        /\ IF ~hq.active
           THEN hq' = [hq EXCEPT !.calls = @ + 1, !.fresh = fresh,
                                 !.last = [kind |-> "inactive", url |-> raw]]
           ELSE IF hq.enqueued >= DefaultHybridVisitCap
                THEN hq' = [hq EXCEPT !.calls = @ + 1, !.fresh = fresh,
                                      !.last = [kind |-> "capped", url |-> raw]]
           ELSE IF TrimSpace(raw) = ""
                THEN hq' = [hq EXCEPT !.calls = @ + 1, !.fresh = fresh,
                                      !.last = [kind |-> "blank", url |-> raw]]
           ELSE IF d.dup
                THEN hq' = [hq EXCEPT !.calls = @ + 1, !.fresh = fresh,
                                      !.last = [kind |-> "visited", url |-> raw]]
           ELSE hq' = [hq EXCEPT !.calls = @ + 1, !.fresh = fresh,
                                 !.visited = d.set,
                                 !.pc[p] = TrimSpace(raw)]

\* The select of enqueueHybrid and the count of the URL sent: a ready case
\* is taken, the default case when none is ready.
enqueueHybridSelect(p) ==
    /\ hq.pc[p] # "none"
    /\ \/ /\ hq.ctxDone \/ hq.stopChanClosed
          /\ hq' = [hq EXCEPT !.pc[p] = "none",
                              !.last = [kind |-> "stopped", url |-> hq.pc[p]]]
       \/ /\ Len(hq.queue) < queueSize
          /\ hq' = [hq EXCEPT !.pc[p] = "none",
                              !.queue = Append(@, hq.pc[p]),
                              !.enqueued = @ + 1,
                              !.dropped = @ \ {hq.pc[p]},
                              !.last = [kind |-> "sent", url |-> hq.pc[p]]]
       \/ /\ ~hq.ctxDone /\ ~hq.stopChanClosed
          /\ Len(hq.queue) >= queueSize
          /\ hq' = [hq EXCEPT !.pc[p] = "none",
                              !.dropped = @ \cup {hq.pc[p]},
                              !.last = [kind |-> "dropped", url |-> hq.pc[p]]]

\* A hybrid worker receives the URL at the head of the queue.
HqReceive ==
    /\ hq.queue # <<>>
    /\ ~hq.ctxDone /\ ~hq.stopChanClosed
    /\ hq' = [hq EXCEPT !.queue = Tail(@)]

\* Stop(): stopHybrid, then the close of stopChan.
HqStop ==
    /\ ~hq.stopChanClosed
    /\ hq' = [hq EXCEPT !.active = FALSE, !.ctxDone = TRUE,
                        !.stopChanClosed = TRUE]

\* After initializeHybrid, which has enqueued the site, "1".
HqInit ==
    hq = [active |-> TRUE, ctxDone |-> FALSE, stopChanClosed |-> FALSE,
          queue |-> <<"1">>, enqueued |-> 1, visited |-> {<<"1">>},
          fresh |-> 2, calls |-> 0, pc |-> [p \in HqCallers |-> "none"],
          dropped |-> {},
          last |-> [kind |-> "sent", url |-> "1"]]

HqNext ==
    \/ \E p \in HqCallers,
          raw \in {"1", " ", ToString(hq.fresh)} \cup hq.dropped :
           enqueueHybridTests(p, raw) /\ UNCHANGED notHqVars
    \/ \E p \in HqCallers : enqueueHybridSelect(p) /\ UNCHANGED notHqVars
    \/ HqReceive /\ UNCHANGED notHqVars
    \/ HqStop /\ UNCHANGED notHqVars

-----------------------------------------------------------------------------
(* The browser pool after Initialize: PoolSize pages in the channel         *)
(* pagePool.  One goroutine more than there are pages calls AcquirePage     *)
(* with the same context, as NavigateAndAnalyze does for a hybrid worker,    *)
(* works on the page it got, and releases it in the deferred call.          *)
(* Shutdown follows the return of every caller (WaitHybrid) and is not      *)
(* part of this model.                                                      *)

PoolCallers == 1..(PoolSize + 1)

\* Goroutine c calls AcquirePage(ctx) on the initialized pool and reaches
\* the select.
AcquirePageCall(c) ==
    /\ pool.acq[c].pc \in {"idle", "failed"}
    /\ pool.calls < MaxPoolCalls
    /\ pool' = [pool EXCEPT !.calls = @ + 1,
                            !.acq[c] = [pc |-> "select", page |-> 0,
                                        err |-> ""]]

\* The select of AcquirePage without the case of the context.
AcquirePageNoCancel(c) ==
    /\ pool.acq[c].pc = "select"
    /\ pool.pagePool # <<>>
    /\ pool' = [pool EXCEPT !.pagePool = Tail(@),
                            !.acq[c] = [pc |-> "holding",
                                        page |-> Head(pool.pagePool),
                                        err |-> ""]]

\* The select of AcquirePage with a receive that leaves the page in the
\* channel.
AcquirePagePeek(c) ==
    /\ pool.acq[c].pc = "select"
    /\ \/ /\ pool.ctxDone
          /\ pool' = [pool EXCEPT !.acq[c] = [pc |-> "failed", page |-> 0,
                                              err |-> "context canceled"]]
       \/ /\ pool.pagePool # <<>>
          /\ pool' = [pool EXCEPT !.acq[c] = [pc |-> "holding",
                                              page |-> Head(pool.pagePool),
                                              err |-> ""]]

\* The select of AcquirePage: ctx.Done() or a page received from pagePool,
\* whichever is ready; the goroutine stays blocked while neither is.
AcquirePage(c) ==
    /\ pool.acq[c].pc = "select"
    /\ \/ /\ pool.ctxDone
          /\ pool' = [pool EXCEPT !.acq[c] = [pc |-> "failed", page |-> 0,
                                              err |-> "context canceled"]]
       \/ /\ pool.pagePool # <<>>
          /\ pool' = [pool EXCEPT !.pagePool = Tail(@),
                                  !.acq[c] = [pc |-> "holding",
                                              page |-> Head(pool.pagePool),
                                              err |-> ""]]

\* The steps of NavigateAndAnalyze that can fail once it holds a page:
\* Navigate, WaitLoad, HTML and extractTransitions; "" is the return of
\* the result.
AnalyzeFailures ==
    {"", "navigate", "wait load", "get html", "extract transitions"}

\* The body of NavigateAndAnalyze between AcquirePage and the return
\* statement: it ends at the first failing step, or with the result.
NavigateAndAnalyzeBody(c, failure) ==
    /\ pool.acq[c].pc = "holding"
    /\ pool' = [pool EXCEPT !.acq[c].pc = "returning",
                            !.acq[c].err = failure]

\* A release of the page on the path of the result only.
ReleasePageOnSuccess(c) ==
    /\ pool.acq[c].pc = "returning"
    /\ pool' = [pool EXCEPT
                  !.pagePool = IF Len(@) < PoolSize /\ pool.acq[c].err = ""
                               THEN Append(@, pool.acq[c].page) ELSE @,
                  !.acq[c] = [pc |-> "idle", page |-> 0,
                              err |-> pool.acq[c].err]]

\* The deferred ReleasePage(page) of NavigateAndAnalyze, run on every
\* return after AcquirePage: the page goes back to pagePool, or is closed
\* when the channel is full.  The caller, hybridWorker, counts an error
\* and continues with its loop, or handles the result; it is idle again.
ReleasePage(c) ==
    /\ pool.acq[c].pc = "returning"
    /\ pool' = [pool EXCEPT
                  !.pagePool = IF Len(@) < PoolSize
                               THEN Append(@, pool.acq[c].page) ELSE @,
                  !.acq[c] = [pc |-> "idle", page |-> 0,
                              err |-> pool.acq[c].err]]

\* stopHybrid: hybridActive is cleared and the context of the callers is
\* cancelled.
PoolCancel ==
    /\ ~pool.ctxDone
    /\ pool' = [pool EXCEPT !.ctxDone = TRUE, !.active = FALSE]

PoolInit ==
    pool = [pagePool |-> [i \in 1..PoolSize |-> i], ctxDone |-> FALSE,
            active |-> TRUE, calls |-> 0,
            acq |-> [c \in PoolCallers |->
                        [pc |-> "idle", page |-> 0, err |-> ""]]]

PoolNext ==
    \/ \E c \in PoolCallers : AcquirePageCall(c) /\ UNCHANGED notPoolVars
    \/ \E c \in PoolCallers : AcquirePage(c) /\ UNCHANGED notPoolVars
    \/ \E c \in PoolCallers, failure \in AnalyzeFailures :
           NavigateAndAnalyzeBody(c, failure) /\ UNCHANGED notPoolVars
    \/ \E c \in PoolCallers : ReleasePage(c) /\ UNCHANGED notPoolVars
    \/ PoolCancel /\ UNCHANGED notPoolVars

\* A goroutine blocked in a select runs once one of its cases is ready.
PoolFairness ==
    \A c \in PoolCallers : WF_vars(AcquirePage(c) /\ UNCHANGED notPoolVars)

-----------------------------------------------------------------------------
(* What a crawler writes: the lines of the error callback.  A line is a    *)
(* sequence of tokens.                                                      *)

\* Status codes of failed requests: 0 and 99 for failures of the connection.
ErrorStatuses ==
    {0, 99, 100, 301, 400, 401, 403, 404, 410, 429, 499, 500, 503, 600}

\* The OnError callback of the main collector, after recordBackoff: the
\* lines printed and the lines given to Output.WriteToFile.
OnErrorNo429(status, u, jsonOutput, quiet, hasOutput) ==
    IF status = 404 \/ status < 100 \/ status >= 500
    THEN [stdout |-> <<>>, file |-> <<>>]
    ELSE LET shown == NormalizeDisplayURL(u)
             plain == <<"[url] - [code-", ToString(status), "] - ">> \o shown
             outputFormat ==
                 IF jsonOutput
                 THEN <<"{output_type:url,status:", ToString(status),
                        ",output:">> \o shown \o <<"}">>
                 ELSE plain
         IN  [stdout |-> IF ~jsonOutput /\ quiet THEN <<shown>>
                         ELSE <<outputFormat>>,
              file |-> IF hasOutput THEN <<outputFormat>> ELSE <<>>]

OnError(status, u, jsonOutput, quiet, hasOutput) ==
    IF status = 404 \/ status = 429 \/ status < 100 \/ status >= 500
    THEN [stdout |-> <<>>, file |-> <<>>]
    ELSE LET shown == NormalizeDisplayURL(u)
             plain == <<"[url] - [code-", ToString(status), "] - ">> \o shown
             outputFormat ==
                 IF jsonOutput
                 THEN <<"{output_type:url,status:", ToString(status),
                        ",output:">> \o shown \o <<"}">>
                 ELSE plain
         IN  [stdout |-> IF ~jsonOutput /\ quiet THEN <<shown>>
                         ELSE <<outputFormat>>,
              file |-> IF hasOutput THEN <<outputFormat>> ELSE <<>>]

\* OnError for a failed request of https://ex.com/a/?a=1&b=2.
CallOnError(status, jsonOutput, quiet, hasOutput) ==
    /\ call.fn = "none"
    /\ call' = [fn |-> "OnError", status |-> status,
                jsonOutput |-> jsonOutput, quiet |-> quiet,
                hasOutput |-> hasOutput,
                out |-> OnError(status, URLPlain, jsonOutput, quiet, hasOutput)]

EmitNext ==
    \/ \E status \in ErrorStatuses, j, q, o \in BOOLEAN :
           CallOnError(status, j, q, o) /\ UNCHANGED notCallVars

-----------------------------------------------------------------------------
(* URLProcessor.Process, called by the callbacks of the collector on        *)
(* several goroutines.  NormalizeURL works on the arguments only;           *)
(* registry.Duplicate is one call of the thread-safe filter; the counter is *)
(* incremented atomically after it.                                         *)

ProcCallers == {"r1", "r2"}

\* http://example.com/<path>.
ExampleURL(path) ==
    [kind |-> "url", scheme |-> "http", host |-> "example.com", port |-> "",
     path |-> path, slash |-> FALSE, query |-> <<>>, frag |-> ""]

\* Raw URLs for Process, each given as what it resolves to against the URL
\* of the request and against the site: /about, /About, about (found on
\* /a/a/a, where it resolves to a path loop), /a/a/a/x, and
\* javascript:void(0).
ProcessInputs ==
    {[request |-> ExampleURL(<<"about">>), site |-> ExampleURL(<<"about">>)],
     [request |-> ExampleURL(<<"About">>), site |-> ExampleURL(<<"About">>)],
     [request |-> ExampleURL(<<"a", "a", "a", "about">>),
      site |-> ExampleURL(<<"about">>)],
     [request |-> ExampleURL(<<"a", "a", "a", "x">>),
      site |-> ExampleURL(<<"a", "a", "a", "x">>)],
     [request |-> [kind |-> "javascript"], site |-> [kind |-> "javascript"]]}

\* url.Parse of the string NormalizeURL returns for u.
ParseNormalized(u) ==
    LET cleanedPath == cleanPath(u.path, u.slash)
    IN  [u EXCEPT !.frag = "", !.path = cleanedPath.path,
                  !.slash = cleanedPath.slash]

\* Process up to the counter: the URL to return (<<>> for ""), whether the
\* counter is to be incremented, and the filter after registry.Duplicate.
ProcessNoDuplicateTest(set, raw) ==
    LET first == NormalizeURL(raw.request)
        second == NormalizeURL(raw.site)
        u == IF first[2] THEN raw.request ELSE raw.site
        normalizedURL == IF first[2] THEN first[1] ELSE second[1]
        d == StringFilterDuplicate(
                 set, canonicalRequestKey("GET", ParseNormalized(u), ""))
    IN  IF ~first[2] /\ ~second[2]
        THEN [ret |-> <<>>, count |-> FALSE, filter |-> set]
        ELSE [ret |-> normalizedURL, count |-> TRUE, filter |-> d.set]

Process(set, raw) ==
    LET first == NormalizeURL(raw.request)
        second == NormalizeURL(raw.site)
        u == IF first[2] THEN raw.request ELSE raw.site
        normalizedURL == IF first[2] THEN first[1] ELSE second[1]
        d == StringFilterDuplicate(
                 set, canonicalRequestKey("GET", ParseNormalized(u), ""))
    IN  IF ~first[2] /\ ~second[2]
        THEN [ret |-> <<>>, count |-> FALSE, filter |-> set]
        ELSE IF d.dup
             THEN [ret |-> <<>>, count |-> FALSE, filter |-> d.set]
        ELSE [ret |-> normalizedURL, count |-> TRUE, filter |-> d.set]

\* Goroutine c calls Process(raw) and gets as far as the counter, or returns
\* "" before it.  last describes the call that returned last: held says
\* whether the registry held the URL when the call was made.
ProcessCall(c, raw) ==
    LET r == Process(proc.filter, raw)
        u == IF NormalizeURL(raw.request)[2] THEN raw.request ELSE raw.site
        held == /\ u.kind = "url"
                /\ FoldCase(canonicalRequestKey("GET", ParseNormalized(u), ""))
                       \in proc.filter
    IN  /\ proc.pc[c].pc = "idle"
        /\ proc.calls < MaxProcessCalls
        /\ proc' = [proc EXCEPT
                      !.calls = @ + 1,
                      !.filter = r.filter,
                      !.pc[c] = IF r.count
                                THEN [pc |-> "count", raw |-> raw,
                                      ret |-> r.ret, held |-> held]
                                ELSE @,
                      !.last = IF r.count THEN @
                               ELSE [done |-> TRUE, raw |-> raw,
                                     ret |-> r.ret,
                                     held |-> held,
                                     before |-> proc.urlsFound,
                                     after |-> proc.urlsFound]]

\* Stats.IncrementURLsFound, logOutput and the return of the URL.
ProcessCount(c) ==
    /\ proc.pc[c].pc = "count"
    /\ proc' = [proc EXCEPT
                  !.urlsFound = @ + 1,
                  !.pc[c] = [pc |-> "idle"],
                  !.last = [done |-> TRUE, raw |-> proc.pc[c].raw,
                            ret |-> proc.pc[c].ret,
                            held |-> proc.pc[c].held,
                            before |-> proc.urlsFound,
                            after |-> proc.urlsFound + 1]]

ProcInit ==
    proc = [filter |-> {}, urlsFound |-> 0, calls |-> 0,
            pc |-> [c \in ProcCallers |-> [pc |-> "idle"]],
            last |-> [done |-> FALSE]]

ProcNext ==
    \/ \E c \in ProcCallers, raw \in ProcessInputs :
           ProcessCall(c, raw) /\ UNCHANGED notProcVars
    \/ \E c \in ProcCallers : ProcessCount(c) /\ UNCHANGED notProcVars

------------------------------------------------------------------------------
(* The Output of a crawler (src/core/output.go).  A string is the sequence  *)
(* of its lines: <<"raw", "a", "">> is "raw\na\n".  The file is the sequence *)
(* of the lines it holds, each ended by "\n".                                *)

\* bufio.MaxScanTokenSize: the buffer of the bufio.Scanner in loadExisting.
MaxScanTokenSize == 65536

LongLine == "long"

\* len(line), with LongLine standing for a line of MaxScanTokenSize bytes.
LineBytes(line) == IF line = LongLine THEN MaxScanTokenSize ELSE Len(line)

\* The strings the callers write: a line, the same line in capitals, a
\* second line, a blank string, a long line, and the raw bodies of two
\* responses ("[Raw] - \n%s\n", crawler.go:844).
OutputMessages ==
    {<<"a">>, <<"A">>, <<"b">>, <<" ">>, <<LongLine>>,
     <<"raw", "a", "">>, <<"raw", "b", "">>}

\* The files an Output is opened on: no file, and files an earlier Output
\* wrote.
ExistingFiles ==
    {<<>>, <<"b">>, <<"A", "b">>, <<LongLine, "b">>, <<"raw", "a", "">>}

\* strings.TrimSpace(msg) == "".
IsBlank(msg) == \A i \in DOMAIN msg : TrimSpace(msg[i]) = ""

\* The lines scanner.Scan() delivers: the scan ends at the first line that
\* does not fit the buffer, and loadExisting does not read scanner.Err().
RECURSIVE ScanLines(_)
ScanLines(file) ==
    IF file = <<>> THEN <<>>
    ELSE IF LineBytes(Head(file)) >= MaxScanTokenSize THEN <<>>
    ELSE <<Head(file)>> \o ScanLines(Tail(file))

\* loadExisting: every scanned line that is not empty goes into the filter.
RECURSIVE loadExisting(_, _)
loadExisting(set, lines) ==
    IF lines = <<>> THEN set
    ELSE loadExisting(
             IF Head(lines) = "" THEN set
             ELSE StringFilterDuplicate(set, <<Head(lines)>>).set,
             Tail(lines))

\* WriteToFile(msg) on the Output o, under o.mu: a blank string and a string
\* the filter holds are dropped; any other string is appended with "\n", so
\* its lines become the last lines of the file.
WriteToFile(o, msg) ==
    IF IsBlank(msg) THEN o
    ELSE LET d == StringFilterDuplicate(o.filter, msg)
         IN  IF d.dup THEN [o EXCEPT !.filter = d.set]
             ELSE [o EXCEPT !.filter = d.set, !.file = o.file \o msg]

\* newOutput: open the file for appending and load its lines.
NewOutput(existing) ==
    /\ ~output.open
    /\ output' = [output EXCEPT
                      !.open = TRUE, !.file = existing,
                      !.base = Len(existing),
                      !.filter = loadExisting({}, ScanLines(existing))]
    /\ UNCHANGED notOutputVars

CallWriteToFile(msg) ==
    /\ output.open
    /\ Len(output.log) < MaxWrites
    /\ LET o == WriteToFile(output, msg)
       IN  output' = [o EXCEPT !.log = Append(output.log,
                          [msg |-> msg, accepted |-> o.file # output.file])]
    /\ UNCHANGED notOutputVars

OutputInit ==
    output = [open |-> FALSE, file |-> <<>>, base |-> 0, filter |-> {},
              log |-> <<>>]

OutputNext ==
    \/ \E existing \in ExistingFiles : NewOutput(existing)
    \/ \E msg \in OutputMessages : CallWriteToFile(msg)

------------------------------------------------------------------------------
(* The two responses of one request key, handled in either order.  Each     *)
(* handler records and evaluates under reflectedMutex, so the handlers of   *)
(* two responses run one after the other.                                   *)

\* The baseline responses of the key: the request context as queueRequest
\* fills it for a request that is not reflected.
OrderBaselines ==
    [key : {"k1"}, reflected : {FALSE}, param : {""}, payload : {""},
     url : {"u"}, body : RefBodies, method : {"GET", "POST"},
     origin : {"o1", "o2"}, status : {200}]

\* The mutated responses of the key.
OrderMutated ==
    {[key |-> "k1", reflected |-> TRUE, param |-> m.param,
      payload |-> m.payload, url |-> m.url, body |-> b, method |-> meth,
      origin |-> o, status |-> st] :
        m \in RefMutations, b \in RefBodies, meth \in {"GET", "POST"},
        o \in {"o1", "o2"}, st \in {200, 500}}

\* queueRequest for a reflected request, what it writes to the entry.
storeMutation(e, r) == [e EXCEPT !.param = r.param, !.payload = r.payload]

\* The handler of the response r on the entry e: the entry afterwards and the
\* finding.
handleResponse(e, r) ==
    evaluate(IF r.reflected THEN recordMutated(e, r) ELSE recordBaseline(e, r))

\* The finding that is output when r1 is handled before r2.
EmittedInOrder(e, r1, r2) ==
    LET first  == handleResponse(e, r1)
        second == handleResponse(first.entry, r2)
    IN  IF first.finding.found THEN first.finding ELSE second.finding

\* Both responses of a key, in the three orders in which the baseline
\* response, the queueing of the mutated request and the mutated response
\* can happen.
CallBothOrders(b, m) ==
    /\ call.fn = "none"
    /\ reflected
    /\ call' = [fn |-> "bothOrders", baseline |-> b, mutated |-> m,
                baselineFirst |->
                    EmittedInOrder(storeMutation(ensureReflectionEntry, m),
                                   b, m),
                baselineBeforeQueue |->
                    LET first == handleResponse(ensureReflectionEntry, b)
                        second == handleResponse(
                                      storeMutation(first.entry, m), m)
                    IN  IF first.finding.found THEN first.finding
                        ELSE second.finding,
                mutatedFirst |->
                    EmittedInOrder(storeMutation(ensureReflectionEntry, m),
                                   m, b)]
    /\ UNCHANGED notCallVars

OrderNext ==
    \E b \in OrderBaselines, m \in OrderMutated : CallBothOrders(b, m)

------------------------------------------------------------------------------
(* Synthesised requests (scheduleJSRequest, queueRequest): what they put   *)
(* into the registry and which requests they hand to the collector.         *)

\* crawler.C.MaxDepth of the modelled crawler.
MaxDepth == 2

\* https://ex.com/a: a URL without query.
URLNoQuery ==
    [kind |-> "url", scheme |-> "https", host |-> "ex.com", port |-> "",
     path |-> <<"a">>, slash |-> FALSE, query |-> <<>>, frag |-> ""]

\* The requests found in scripts.
JSRequests ==
    [Method : {"", "POST"}, RawURL : {URLPlain, URLNoQuery}, Body : {""},
     Headers : {<<>>}, ContentType : {""}]

\* What pickPayloads can return for a budget: a sample of the catalogue.
PayloadSamples(budget) ==
    LET n == minInt(budget, 2)
    IN  {s \in {<<>>, <<"p1">>, <<"p2">>, <<"p1", "p2">>, <<"p2", "p1">>} :
             Len(s) = n}

\* buildReflectedRequests: one mutated request per query parameter while
\* payloads remain; for a request without parameters, one request with the
\* parameter reflectedParamName added to the query (GET) or to the body.
buildReflectedRequests(sr, payloads) ==
    LET q == sr.RawURL.query
        n == minInt(Len(q), Len(payloads))
        method == IF ToUpper(sr.Method) = "" THEN "GET" ELSE ToUpper(sr.Method)
    IN  IF n > 0
        THEN [i \in 1..n |->
                 [Request |-> [sr EXCEPT !.RawURL.query[i] =
                                             <<q[i][1], payloads[i]>>],
                  Param |-> q[i][1], Payload |-> payloads[i]]]
        ELSE IF payloads = <<>> THEN <<>>
        ELSE IF method = "GET"
             THEN << [Request |-> [sr EXCEPT !.RawURL.query =
                                       <<<<"gospider_ref", payloads[1]>>>>],
                      Param |-> "gospider_ref", Payload |-> payloads[1]] >>
        ELSE << [Request |-> [sr EXCEPT !.Body = payloads[1]],
                 Param |-> "gospider_ref", Payload |-> payloads[1]] >>

\* strconv.Atoi on the decimal digits strconv.Itoa writes: the number whose
\* digits the string is, or an error.
Atoi(str) ==
    IF \E n \in 0..99 : ToString(n) = str
    THEN [ok |-> TRUE, n |-> CHOOSE n \in 0..99 : ToString(n) = str]
    ELSE [ok |-> FALSE, n |-> 0]

\* queueRequest without the test of the depth limit.
queueRequestNoLimit(maxDepth, st, sr, isMutation, baselineKey, parentDepth) ==
    LET nextDepth == (IF parentDepth < 0 THEN 0 ELSE parentDepth) + 1
        method == IF sr.Method = "" THEN "GET" ELSE sr.Method
        d == StringFilterDuplicate(
                 st.filter, canonicalRequestKey(method, sr.RawURL, sr.Body))
    IN  IF d.dup THEN [st EXCEPT !.filter = d.set]
        ELSE [st EXCEPT !.filter = d.set,
                        !.queued = Append(@,
                            [key |-> baselineKey, mutation |-> isMutation,
                             reflected |-> isMutation /\ reflected,
                             method |-> method, url |-> sr.RawURL,
                             body |-> sr.Body,
                             depth |-> ToString(nextDepth)])]

\* queueRequest of a crawler whose collector has the depth limit maxDepth:
\* nothing beyond the limit, nothing for a request the registry holds;
\* otherwise the request goes to the collector with the key and the depth,
\* in decimal digits ("__depth"), in its context.  st is the registry's
\* filter and the requests queued.
queueRequestAt(maxDepth, st, sr, isMutation, baselineKey, parentDepth) ==
    LET nextDepth == (IF parentDepth < 0 THEN 0 ELSE parentDepth) + 1
        method == IF sr.Method = "" THEN "GET" ELSE sr.Method
        d == StringFilterDuplicate(
                 st.filter, canonicalRequestKey(method, sr.RawURL, sr.Body))
    IN  IF maxDepth > 0 /\ nextDepth > maxDepth THEN st
        ELSE IF d.dup THEN [st EXCEPT !.filter = d.set]
        ELSE [st EXCEPT !.filter = d.set,
                        !.queued = Append(@,
                            [key |-> baselineKey, mutation |-> isMutation,
                             reflected |-> isMutation /\ reflected,
                             method |-> method, url |-> sr.RawURL,
                             body |-> sr.Body,
                             depth |-> ToString(nextDepth)])]

\* queueRequest of the modelled crawler.
queueJSRequest(st, sr, isMutation, baselineKey, parentDepth) ==
    queueRequestAt(MaxDepth, st, sr, isMutation, baselineKey, parentDepth)

\* The depth of a queued request once the OnRequest callback has run: the
\* number in "__depth" of its context, and the depth the collector gave it
\* when the context has none or no number.
OnRequestDepth(q, collectorDepth) ==
    IF q.depth # "" /\ Atoi(q.depth).ok THEN Atoi(q.depth).n
    ELSE collectorDepth

RECURSIVE queueMutations(_, _, _, _)
queueMutations(st, mutations, key, parentDepth) ==
    IF mutations = <<>> THEN st
    ELSE queueMutations(
             queueJSRequest(st, Head(mutations).Request, TRUE, key,
                            parentDepth),
             Tail(mutations), key, parentDepth)

\* scheduleJSRequest: the baseline request, then the mutated requests.
scheduleJSRequest(st, sr, parentDepth, payloads) ==
    LET key == buildRequestKey(sr)
        s1  == queueJSRequest(st, sr, FALSE, key, parentDepth)
    IN  queueMutations(s1, buildReflectedRequests(sr, payloads), key,
                       parentDepth)

\* A request found in a script is scheduled.  The budget is the length of the
\* catalogue for a crawler with reflection on, and baselineFuzzCap otherwise.
CallScheduleJSRequest(sr, parentDepth, baselineFuzzCap, payloads) ==
    /\ js.calls < MaxJSCalls
    /\ payloads \in PayloadSamples(IF reflected THEN MaxPayloads
                                   ELSE baselineFuzzCap)
    /\ js' = [scheduleJSRequest(js, sr, parentDepth, payloads)
                  EXCEPT !.calls = js.calls + 1,
                         !.last = [fn |-> "schedule", sr |-> sr,
                                   key |-> buildRequestKey(sr),
                                   held |-> FoldCase(canonicalRequestKey(
                                                IF sr.Method = "" THEN "GET"
                                                ELSE sr.Method,
                                                sr.RawURL, sr.Body))
                                            \in js.filter]]
    /\ UNCHANGED notJsVars

\* A link of a page is visited: the registry gets GET and the URL, and the
\* request carries no key.
VisitLinkURL(u) ==
    /\ js.calls < MaxJSCalls
    /\ js' = [js EXCEPT !.calls = @ + 1,
                        !.filter = StringFilterDuplicate(
                                       @, canonicalRequestKey("GET", u, "")).set,
                        !.last = [fn |-> "visit"]]
    /\ UNCHANGED notJsVars

JsInit ==
    js = [filter |-> {}, queued |-> <<>>, calls |-> 0, last |-> [fn |-> "none"]]

JsNext ==
    \/ \E sr \in JSRequests, parentDepth \in {0, MaxDepth},
          baselineFuzzCap \in {0, 1} :
           \E payloads \in PayloadSamples(2) \cup PayloadSamples(1)
                           \cup PayloadSamples(0) :
               CallScheduleJSRequest(sr, parentDepth, baselineFuzzCap, payloads)
    \/ \E u \in {URLPlain, URLNoQuery} : VisitLinkURL(u)

------------------------------------------------------------------------------
(* The hybrid workers analysing pages: NavigateAndAnalyze on the state      *)
(* graph of the crawler, then handleHybridResult.  The workers share the    *)
(* graph; each call of a method of the graph is one step (g.mu), and the    *)
(* extraction of the transitions from the page is a step between two such   *)
(* calls.                                                                   *)

AnalysisWorkers == {"w1", "w2"}

\* NavigateAndAnalyze, up to AddState: the page of the URL has the DOM state
\* stateHash.  For a new state the worker goes on to extract the
\* transitions, for a known one it returns a result without transitions.
NavigateAndAnalyze(w, url, stateHash) ==
    LET r == addState(analysis.nodes, stateHash, url)
    IN  /\ analysis.worker[w].pc = "idle"
        /\ analysis.navigations < MaxNavigations
        /\ analysis' = [analysis EXCEPT
               !.navigations = @ + 1,
               !.nodes = r.nodes,
               !.worker[w] = [pc |-> IF r.ret THEN "extract" ELSE "result",
                              StateHash |-> stateHash, IsNewState |-> r.ret,
                              Transitions |-> <<>>]]
        /\ UNCHANGED notAnalysisVars

\* extractTransitions returns: with an error NavigateAndAnalyze returns the
\* error and the worker takes the next URL; otherwise the transitions, if
\* any, are registered and the result is returned.
ExtractTransitions(w, failed, transitions) ==
    LET h == analysis.worker[w].StateHash
    IN  /\ analysis.worker[w].pc = "extract"
        /\ analysis' =
               IF failed
               THEN [analysis EXCEPT !.worker[w] = [pc |-> "idle"]]
               ELSE [analysis EXCEPT
                        !.transitions[h] =
                            IF Len(transitions) > 0
                            THEN registerTransitions(@, 0, transitions).store
                            ELSE @,
                        !.extracted[h] = TRUE,
                        !.worker[w].pc = "result",
                        !.worker[w].Transitions = transitions]
        /\ UNCHANGED notAnalysisVars

\* handleHybridResult: the state of the result is marked analysed.
handleHybridResult(w) ==
    /\ analysis.worker[w].pc = "result"
    /\ analysis' = [analysis EXCEPT
           !.nodes = markAnalyzed(@, analysis.worker[w].StateHash),
           !.worker[w] = [pc |-> "idle"]]
    /\ UNCHANGED notAnalysisVars

AnalysisInit ==
    analysis = [nodes |-> {}, transitions |-> [h \in StateHashes |-> {}],
                extracted |-> [h \in StateHashes |-> FALSE],
                worker |-> [w \in AnalysisWorkers |-> [pc |-> "idle"]],
                navigations |-> 0]

AnalysisNext ==
    \/ \E w \in AnalysisWorkers, url \in {"u1", "u2"}, h \in StateHashes :
           NavigateAndAnalyze(w, url, h)
    \/ \E w \in AnalysisWorkers, failed \in BOOLEAN,
          ts \in {<<>>} \cup {<<t>> : t \in Transitions} :
           ExtractTransitions(w, failed, ts)
    \/ \E w \in AnalysisWorkers : handleHybridResult(w)

------------------------------------------------------------------------------
(* The values a crawler finds in response bodies: subdomains (subSet), AWS  *)
(* S3 strings (awsSet) and JavaScript URLs (jsSet).  The callbacks of       *)
(* several responses run concurrently; a callback tests a value with one    *)
(* call of the thread-safe filter and prints it afterwards.                 *)

FoundCallers == {"r1", "r2"}

FoundKinds == {"subdomains", "aws-s3", "javascript"}

FoundValues == {"a", "A", "b"}

\* The test of a found value that never stores the value.
findValueNoStore(sets, kind, value) ==
    [dup |-> StringFilterDuplicate(sets[kind], <<value>>).dup, sets |-> sets]

\* !crawler.subSet.Duplicate(sub), !crawler.awsSet.Duplicate(e) and
\* !crawler.jsSet.Duplicate(jsFileUrl): the test of the set of the kind.
findValue(sets, kind, value) ==
    LET d == StringFilterDuplicate(sets[kind], <<value>>)
    IN  [dup |-> d.dup, sets |-> [sets EXCEPT ![kind] = d.set]]

\* Callback c finds a value in its response: findSubdomains (which does
\* nothing unless the crawler looks for subdomains), findAWSS3 or
\* feedLinkfinder, up to the test of the set.
FindValue(c, kind, value, subs) ==
    LET r == findValue(found.sets, kind, value)
    IN  /\ found.pc[c].pc = "idle"
        /\ found.ops < MaxFindOps
        /\ found' =
               IF kind = "subdomains" /\ ~subs
               THEN [found EXCEPT !.ops = @ + 1]
               ELSE [found EXCEPT
                        !.ops = @ + 1,
                        !.sets = r.sets,
                        !.seen = Append(@, [kind |-> kind, value |-> value]),
                        !.pc[c] = IF r.dup THEN @
                                  ELSE [pc |-> "emit", kind |-> kind,
                                        value |-> value]]
        /\ UNCHANGED notFoundVars

\* The callback prints the value and writes it to the Output.
EmitValue(c) ==
    /\ found.pc[c].pc = "emit"
    /\ found' = [found EXCEPT
           !.emitted = Append(@, [kind |-> found.pc[c].kind,
                                  value |-> found.pc[c].value, by |-> c,
                                  tests |-> Len(found.seen)]),
           !.pc[c] = [pc |-> "idle"]]
    /\ UNCHANGED notFoundVars

FoundInit ==
    found = [sets |-> [k \in FoundKinds |-> {}], emitted |-> <<>>,
             seen |-> <<>>, ops |-> 0,
             pc |-> [c \in FoundCallers |-> [pc |-> "idle"]]]

FoundNext ==
    \/ \E c \in FoundCallers, kind \in FoundKinds, value \in FoundValues,
          subs \in BOOLEAN : FindValue(c, kind, value, subs)
    \/ \E c \in FoundCallers : EmitValue(c)

------------------------------------------------------------------------------
(* evaluate applied to one reflection entry.                                *)

\* The entries evaluate is applied to: each slot populated or not, emitted or
\* not, equal and different hashes, the payload found or not, and no, one or
\* two markers.
EvaluateEntries ==
    {[ensureReflectionEntry EXCEPT
          !.baselineSet = bs, !.mutatedSet = ms, !.emitted = em,
          !.baselineHash = bh, !.mutatedHash = mh,
          !.mutatedContains = mc, !.mutatedMarkers = mm,
          !.url = "u?q=p1", !.param = "q", !.payload = "p1"] :
        bs \in BOOLEAN, ms \in BOOLEAN, em \in BOOLEAN,
        bh \in {"plain", "echo"}, mh \in {"plain", "echo"}, mc \in BOOLEAN,
        mm \in {<<>>, <<"template-marker">>,
                <<"html-encoded", "template-marker">>}}

CallEvaluate(entry) ==
    /\ call.fn = "none"
    /\ call' = [fn |-> "evaluate", entry |-> entry, ret |-> evaluate(entry)]
    /\ UNCHANGED notCallVars

EvaluateNext == \E entry \in EvaluateEntries : CallEvaluate(entry)

------------------------------------------------------------------------------
(* Calls of queueRequest on crawlers with different depth limits, each on   *)
(* an empty registry.                                                       *)

\* The depth limits of the crawlers: 0 is no limit.
DepthLimits == 0..(MaxDepth + 1)

\* The depths of the parents, the negative ones included.
ParentDepths == (0 - 2)..(MaxDepth + 2)

CallQueueRequest(maxDepth, sr, isMutation, parentDepth) ==
    /\ call.fn = "none"
    /\ call' = [fn |-> "queueRequest", maxDepth |-> maxDepth,
                parentDepth |-> parentDepth, sr |-> sr,
                ret |-> queueRequestAt(
                            maxDepth, [filter |-> {}, queued |-> <<>>], sr,
                            isMutation, buildRequestKey(sr),
                            parentDepth).queued]
    /\ UNCHANGED notCallVars

DepthNext ==
    \E maxDepth \in DepthLimits, sr \in JSRequests, isMutation \in BOOLEAN,
       parentDepth \in ParentDepths :
        CallQueueRequest(maxDepth, sr, isMutation, parentDepth)

------------------------------------------------------------------------------
(* The DOM deduper of a crawler.  A document is the body of a response and  *)
(* the elements goquery finds in it, in document order; an element is its   *)
(* tag, the names of its attributes and whether its text is not blank.  A   *)
(* signature is the set of the bits of the 64 that are 1.                   *)

\* The sum of hash/fnv's New64a over the bytes of a feature "kind:name", as
\* the set of its bits that are 1.
fnv64a(feature) ==
    CASE feature = <<"tag", "html">> ->
             {1, 2, 9, 10, 11, 12, 13, 14, 16, 17, 18, 19, 20, 23, 24, 25,
             26, 27, 28, 29, 30, 34, 38, 39, 42, 44, 45, 46, 47, 52, 56, 57,
             59, 60, 61, 63}
      [] feature = <<"tag", "head">> ->
             {0, 4, 6, 8, 12, 13, 15, 16, 20, 21, 24, 27, 30, 31, 34, 38, 39,
             40, 42, 45, 46, 51, 52, 53, 54, 55, 58, 59, 60, 61}
      [] feature = <<"tag", "body">> ->
             {0, 1, 4, 5, 9, 10, 11, 12, 13, 14, 15, 18, 20, 22, 24, 27, 29,
             34, 36, 37, 38, 39, 41, 42, 43, 46, 49, 51, 53, 54, 56, 60, 62}
      [] feature = <<"tag", "p">> ->
             {0, 7, 8, 10, 11, 12, 14, 16, 17, 20, 22, 24, 25, 29, 31, 32,
             35, 37, 40, 42, 43, 44, 46, 47, 48, 49, 50, 52, 53, 54, 56, 57,
             59, 60, 62}
      [] feature = <<"tag", "script">> ->
             {2, 3, 4, 5, 11, 13, 14, 16, 17, 19, 20, 23, 24, 26, 27, 28, 29,
             30, 32, 33, 36, 38, 39, 45, 46, 48, 49, 51, 56, 57, 60, 63}
      [] feature = <<"tag", "form">> ->
             {0, 3, 4, 5, 6, 9, 10, 12, 14, 15, 18, 19, 20, 24, 25, 26, 27,
             28, 35, 36, 40, 41, 42, 45, 46, 50, 51, 52, 54, 56, 58, 59, 61,
             62}
      [] feature = <<"tag", "input">> ->
             {0, 3, 4, 7, 8, 9, 11, 12, 13, 14, 16, 17, 19, 21, 22, 25, 26,
             27, 28, 29, 30, 32, 34, 38, 43, 49, 51, 52, 56, 57, 60, 61, 63}
      [] feature = <<"tag", "a">> ->
             {1, 2, 3, 4, 7, 14, 16, 17, 20, 22, 24, 25, 29, 31, 32, 35, 37,
             42, 43, 46, 47, 48, 49, 50, 52, 53, 54, 56, 57, 59, 60, 62}
      [] feature = <<"attr", "class">> ->
             {4, 9, 13, 14, 21, 23, 24, 25, 28, 29, 30, 36, 37, 38, 39, 41,
             42, 43, 48, 49, 50, 51, 52, 53, 54, 57, 59, 61, 63}
      [] feature = <<"attr", "src">> ->
             {1, 2, 3, 6, 8, 9, 10, 15, 16, 17, 20, 21, 23, 26, 30, 33, 35,
             36, 38, 39, 40, 41, 43, 45, 47, 49, 51, 52, 53, 54, 55, 56, 58,
             59, 60, 63}
      [] feature = <<"attr", "action">> ->
             {1, 5, 7, 8, 10, 11, 13, 14, 16, 21, 24, 28, 31, 34, 35, 39, 40,
             41, 42, 43, 45, 47, 49, 52, 53, 55, 56, 57, 60, 61, 62, 63}
      [] feature = <<"attr", "method">> ->
             {0, 3, 5, 6, 9, 10, 12, 16, 17, 18, 19, 20, 22, 23, 26, 27, 30,
             34, 35, 36, 39, 41, 43, 45, 46, 47, 50, 52, 53, 54, 55, 57, 59,
             61}
      [] feature = <<"attr", "name">> ->
             {0, 1, 3, 4, 6, 9, 13, 17, 20, 21, 22, 24, 26, 27, 29, 32, 38,
             42, 45, 46, 47, 49, 53, 56, 59, 60, 62, 63}
      [] feature = <<"attr", "type">> ->
             {4, 5, 6, 7, 10, 14, 16, 17, 18, 22, 23, 25, 26, 30, 33, 34, 35,
             37, 38, 39, 40, 41, 42, 43, 46, 49, 50, 52, 53, 56, 57, 59, 61,
             62}
      [] feature = <<"attr", "href">> ->
             {0, 2, 3, 6, 9, 11, 12, 14, 17, 18, 21, 22, 23, 24, 27, 29, 30,
             34, 35, 42, 43, 44, 45, 46, 47, 50, 54, 55, 56, 62}
      [] feature = <<"text", "present">> ->
             {0, 1, 2, 3, 5, 7, 8, 9, 10, 11, 12, 13, 15, 17, 22, 25, 26, 28,
             30, 31, 32, 34, 36, 40, 41, 43, 45, 49, 56, 59, 60, 62}
      [] feature = <<"empty", "">> ->
             {1, 2, 3, 5, 7, 9, 12, 13, 15, 18, 19, 20, 28, 30, 31, 32, 33,
             36, 37, 39, 40, 41, 42, 43, 45, 46, 47, 48, 49, 50, 51, 54, 60,
             63}

\* strings.HasPrefix(name, "data-") for the attribute names of the model.
HasPrefixData(name) == name \in {"data-x", "DATA-Y"}

\* The features of one element: its tag, its attributes other than data-*
\* and style, and text:present for text that is not blank outside script
\* and style.
ElementFeatures(el) ==
    LET tag == ToLower(el.tag)
        names == [i \in DOMAIN el.attrs |-> ToLower(el.attrs[i])]
        kept == SelectSeq(names, LAMBDA n : n # "" /\ ~HasPrefixData(n)
                                             /\ n # "style")
    IN  IF tag = "" THEN <<>>
        ELSE <<<<"tag", tag>>>>
             \o [i \in DOMAIN kept |-> <<"attr", kept[i]>>]
             \o (IF tag \notin {"script", "style"} /\ el.text
                 THEN <<<<"text", "present">>>> ELSE <<>>)

RECURSIVE DocumentFeatures(_)
DocumentFeatures(elements) ==
    IF elements = <<>> THEN <<>>
    ELSE ElementFeatures(Head(elements)) \o DocumentFeatures(Tail(elements))

\* simhash: bit i of the result is 1 iff at least as many features have
\* bit i set as have it clear.
simhash(features) ==
    IF features = <<>> THEN {}
    ELSE {i \in 0..63 :
             LET set == Cardinality({j \in DOMAIN features :
                                        i \in fnv64a(features[j])})
             IN  set - (Len(features) - set) >= 0}

\* ComputeDOMSignature on a parsed document (the documents of the model are
\* far below the cap of 2048 features).
ComputeDOMSignature(doc) ==
    LET features == DocumentFeatures(doc.elements)
    IN  simhash(IF features = <<>> THEN <<<<"empty", "">>>> ELSE features)

\* bits.OnesCount64(a ^ b)
HammingDistance(a, b) == Cardinality((a \ b) \cup (b \ a))

\* html.Parse gives every body the elements html, head and body.
DocEmpty ==
    [body |-> "",
     elements |-> <<[tag |-> "html", attrs |-> <<>>, text |-> FALSE],
                    [tag |-> "head", attrs |-> <<>>, text |-> FALSE],
                    [tag |-> "body", attrs |-> <<>>, text |-> FALSE]>>]

DocPara ==
    [body |-> "<p>x</p>",
     elements |-> <<[tag |-> "html", attrs |-> <<>>, text |-> TRUE],
                    [tag |-> "head", attrs |-> <<>>, text |-> FALSE],
                    [tag |-> "body", attrs |-> <<>>, text |-> TRUE],
                    [tag |-> "p", attrs |-> <<>>, text |-> TRUE]>>]

DocParaData ==
    [body |-> "<p data-x style>x</p>",
     elements |-> <<[tag |-> "html", attrs |-> <<>>, text |-> TRUE],
                    [tag |-> "head", attrs |-> <<>>, text |-> FALSE],
                    [tag |-> "body", attrs |-> <<>>, text |-> TRUE],
                    [tag |-> "p", attrs |-> <<"data-x", "style">>,
                     text |-> TRUE]>>]

DocParaClass ==
    [body |-> "<p class>x</p>",
     elements |-> <<[tag |-> "html", attrs |-> <<>>, text |-> TRUE],
                    [tag |-> "head", attrs |-> <<>>, text |-> FALSE],
                    [tag |-> "body", attrs |-> <<>>, text |-> TRUE],
                    [tag |-> "p", attrs |-> <<"class">>, text |-> TRUE]>>]

DocForm ==
    [body |-> "<script src>s</script><form action method><input name type></form><a href>x</a>",
     elements |-> <<[tag |-> "html", attrs |-> <<>>, text |-> TRUE],
                    [tag |-> "head", attrs |-> <<>>, text |-> FALSE],
                    [tag |-> "script", attrs |-> <<"src">>, text |-> TRUE],
                    [tag |-> "body", attrs |-> <<>>, text |-> TRUE],
                    [tag |-> "form", attrs |-> <<"action", "method">>,
                     text |-> FALSE],
                    [tag |-> "input", attrs |-> <<"name", "type">>,
                     text |-> FALSE],
                    [tag |-> "a", attrs |-> <<"href">>, text |-> TRUE]>>]

Documents == {DocEmpty, DocPara, DocParaData, DocParaClass, DocForm}

Domains == {"a.com", "b.com"}

\* NewDOMDeduper(threshold): 6 for a threshold that is not positive.
NewDOMDeduper(threshold) ==
    /\ ~dom.created
    /\ dom' = [dom EXCEPT !.created = TRUE,
                          !.threshold = IF threshold <= 0 THEN 6
                                        ELSE threshold]
    /\ UNCHANGED notDomVars

\* ShouldSkip with one bucket for every domain.
ShouldSkipOneBucket(d, domain, doc) ==
    LET sig == ComputeDOMSignature(doc)
        seen == d.buckets["a.com"]
    IN  IF doc.body = "" THEN [d |-> d, skip |-> FALSE, sig |-> {}]
        ELSE IF \E i \in DOMAIN seen :
                    HammingDistance(seen[i], sig) <= d.threshold
        THEN [d |-> d, skip |-> TRUE, sig |-> sig]
        ELSE [d |-> [d EXCEPT !.buckets["a.com"] = Append(seen, sig)],
              skip |-> FALSE, sig |-> sig]

\* ShouldSkip(domain, body) under d.mu: false and signature 0 for a body of
\* length 0; true for a signature within the threshold of one recorded for
\* the domain; otherwise the signature is recorded.  (Reading a body from
\* memory does not fail, so the error of the parser does not occur.)
ShouldSkip(d, domain, doc) ==
    LET sig == ComputeDOMSignature(doc)
        seen == d.buckets[domain]
    IN  IF doc.body = "" THEN [d |-> d, skip |-> FALSE, sig |-> {}]
        ELSE IF \E i \in DOMAIN seen :
                    HammingDistance(seen[i], sig) <= d.threshold
        THEN [d |-> d, skip |-> TRUE, sig |-> sig]
        ELSE [d |-> [d EXCEPT !.buckets[domain] = Append(seen, sig)],
              skip |-> FALSE, sig |-> sig]

\* The response callback hands an HTML response of the crawler's domain to
\* the deduper.
CallShouldSkip(domain, doc) ==
    /\ dom.created
    /\ dom.calls < MaxDomCalls
    /\ LET r == ShouldSkip(dom, domain, doc)
       IN  dom' = [r.d EXCEPT !.calls = @ + 1,
                              !.last = [fn |-> "ShouldSkip",
                                        domain |-> domain, doc |-> doc,
                                        before |-> dom.buckets[domain],
                                        skip |-> r.skip, sig |-> r.sig]]
    /\ UNCHANGED notDomVars

DomInit ==
    dom = [created |-> FALSE, threshold |-> 0,
           buckets |-> [domain \in Domains |-> <<>>], calls |-> 0,
           last |-> [fn |-> "none"]]

DomNext ==
    \/ \E threshold \in {0, 7, 14} : NewDOMDeduper(threshold)
    \/ \E domain \in Domains, doc \in Documents : CallShouldSkip(domain, doc)

------------------------------------------------------------------------------
(* Stop() called by several goroutines on one crawler.  The load and the    *)
(* store of stopped, stopHybrid, the select on stopChan and the close of    *)
(* stopChan are steps of their own: nothing in Stop() holds a lock.         *)

StopCallers == {"g1", "g2"}

\* Goroutine g calls Stop().
StopCall(g) ==
    /\ stops.pc[g] = "idle"
    /\ ~stops.panicked
    /\ stops.calls < MaxStopCalls
    /\ stops' = [stops EXCEPT
                   !.pc[g] = "load", !.calls = @ + 1,
                   !.overlap = @ \/ \E h \in StopCallers \ {g} :
                                        stops.pc[h] # "idle"]
    /\ UNCHANGED notStopsVars

\* if crawler.stopped.Load() { return }
StopLoadBy(g) ==
    /\ stops.pc[g] = "load"
    /\ ~stops.panicked
    /\ stops' = [stops EXCEPT !.pc[g] = IF stops.stopped THEN "idle"
                                        ELSE "store"]
    /\ UNCHANGED notStopsVars

\* A test and set of stopped in one step (CompareAndSwap) in place of the
\* load: the call that finds it set returns, the other goes on to
\* stopHybrid.
StopSwapBy(g) ==
    /\ stops.pc[g] = "load"
    /\ ~stops.panicked
    /\ stops' = [stops EXCEPT !.pc[g] = IF stops.stopped THEN "idle"
                                        ELSE "hybrid",
                              !.stopped = TRUE]
    /\ UNCHANGED notStopsVars

\* crawler.stopped.Store(true)
StopStoreBy(g) ==
    /\ stops.pc[g] = "store"
    /\ ~stops.panicked
    /\ stops' = [stops EXCEPT !.pc[g] = "hybrid", !.stopped = TRUE]
    /\ UNCHANGED notStopsVars

\* crawler.stopHybrid()
StopHybridBy(g) ==
    /\ stops.pc[g] = "hybrid"
    /\ ~stops.panicked
    /\ stops' = [stops EXCEPT !.pc[g] = "select", !.hybridActive = FALSE]
    /\ UNCHANGED notStopsVars

\* The select: the receive from a closed stopChan is ready and Stop()
\* returns; from an open one, on which nobody sends, it is not, and the
\* default case is taken.
StopSelectBy(g) ==
    /\ stops.pc[g] = "select"
    /\ ~stops.panicked
    /\ stops' = [stops EXCEPT !.pc[g] = IF stops.closes > 0 THEN "idle"
                                        ELSE "close"]
    /\ UNCHANGED notStopsVars

\* close(crawler.stopChan) in the default case: the close of a closed
\* channel panics.
StopCloseBy(g) ==
    /\ stops.pc[g] = "close"
    /\ ~stops.panicked
    /\ stops' = [stops EXCEPT !.pc[g] = "idle", !.closes = @ + 1,
                              !.panicked = stops.closes > 0]
    /\ UNCHANGED notStopsVars

StopsInit ==
    stops = [stopped |-> FALSE, hybridActive |-> TRUE, closes |-> 0,
             panicked |-> FALSE, calls |-> 0, overlap |-> FALSE,
             pc |-> [g \in StopCallers |-> "idle"]]

StopsNext ==
    \/ \E g \in StopCallers : StopCall(g)
    \/ \E g \in StopCallers : StopLoadBy(g)
    \/ \E g \in StopCallers : StopStoreBy(g)
    \/ \E g \in StopCallers : StopHybridBy(g)
    \/ \E g \in StopCallers : StopSelectBy(g)
    \/ \E g \in StopCallers : StopCloseBy(g)

-----------------------------------------------------------------------------
(* The specifications: one per subsystem, the others standing still. *)

\* Each specification fixes the configuration of the subsystems that stand
\* still.
Init ==
    /\ RegInit /\ RefInit /\ CrInit /\ SchedInit /\ BackoffInit /\ GraphInit
    /\ HqInit /\ PoolInit /\ ProcInit /\ OutputInit
    /\ JsInit /\ AnalysisInit /\ FoundInit /\ DomInit
    /\ StopsInit
    /\ call = [fn |-> "none"]

InitReflect == Init /\ hybridEnabled

InitCrawler == Init /\ reflected

InitCalls == InitCrawler /\ hybridEnabled

SpecRegistry == InitCrawler /\ [][RegNext]_vars

SpecMark == InitCrawler /\ [][MarkNext]_vars

SpecRegistryMark == InitCrawler /\ [][RegMarkNext]_vars

SpecReflect == InitReflect /\ [][RefNext]_vars

SpecCrawler == InitCrawler /\ [][CrNext]_vars

SpecSched == InitCrawler /\ [][SchedNext]_vars

SpecCalls == InitCrawler /\ [][CallNext]_vars

SpecPaths == InitCalls /\ [][PathNext]_vars

SpecBackoff == InitCalls /\ [][BackoffNext]_vars

SpecGraph == InitCalls /\ [][GraphNext]_vars

SpecHq == InitCalls /\ [][HqNext]_vars

SpecEmit == InitCalls /\ [][EmitNext]_vars

SpecProcess == InitCalls /\ [][ProcNext]_vars

SpecOutput == InitCalls /\ [][OutputNext]_vars

SpecOrder == InitCalls /\ [][OrderNext]_vars

SpecJs == InitReflect /\ [][JsNext]_vars

SpecAnalysis == InitCalls /\ [][AnalysisNext]_vars

SpecFound == InitCalls /\ [][FoundNext]_vars

\* The scheduling of one crawler: a goroutine that can take its next step
\* takes it.  A hybrid worker goes on (a navigation ends, by itself or with
\* the cancelled context); Stop(), once called, runs to its end; Start()
\* goes on past its waits when they can return.  No request has to arrive
\* and Stop() need not be called.
CrFairness ==
    /\ \A w \in HybridWorkers :
           /\ WF_vars(WorkerLoop(w) /\ UNCHANGED notCrVars)
           /\ WF_vars(WorkerSelect(w) /\ UNCHANGED notCrVars)
           /\ WF_vars((\E o \in {"error", "leaf", "transition"},
                          t \in HybURLs : WorkerAnalyzed(w, o, t))
                      /\ UNCHANGED notCrVars)
           /\ WF_vars((EnqueueGuard(w) \/ EnqueueCap(w) \/ EnqueueVisited(w)
                         \/ EnqueueSelect(w) \/ EnqueueAdd(w))
                      /\ UNCHANGED notCrVars)
    /\ WF_vars((StopStore \/ StopHybrid \/ StopClose) /\ UNCHANGED notCrVars)
    /\ WF_vars((WaitHybridStop \/ WaitHybridShutdown) /\ UNCHANGED notCrVars)

SpecCrawlerFair == InitCrawler /\ [][CrNext]_vars /\ CrFairness

SpecEvaluate == InitCalls /\ [][EvaluateNext]_vars

SpecDepth == InitCalls /\ [][DepthNext]_vars

SpecDom == InitCalls /\ [][DomNext]_vars

SpecStops == InitCalls /\ [][StopsNext]_vars

SpecSchedFair == InitCrawler /\ [][SchedNext]_vars /\ SchedFairness

SpecPool == InitCalls /\ [][PoolNext]_vars /\ PoolFairness

-----------------------------------------------------------------------------
(* Claims about the request registry.                                      *)

C2_ConcurrentSerialisable ==
    \A c1, c2 \in RegCallers :
        (/\ c1 # c2
         /\ regCall[c1].pc = "done" /\ regCall[c2].pc = "done"
         /\ regCall[c1].ckey # <<>>
         /\ regCall[c1].ckey = regCall[c2].ckey
         /\ regCall[c1].absentAtCall /\ regCall[c2].absentAtCall)
        => regCall[c1].result # regCall[c2].result

\* Both callers began with the key absent and both have returned.
C2_Witness ==
    /\ regCall[1].pc = "done" /\ regCall[2].pc = "done"
    /\ regCall[1].ckey # <<>> /\ regCall[1].ckey = regCall[2].ckey
    /\ regCall[1].absentAtCall /\ regCall[2].absentAtCall
    /\ regCall[1].result /\ ~regCall[2].result

\* C11: the present-set only grows, whatever DuplicateRequest and MarkResponse
\* calls are made: the filter never loses a key, and once a caller has been
\* told "already present" for a canonical key, a call with the same canonical
\* key that returns afterwards is told the same.
C11_PresentSetOnlyGrows ==
    [][/\ filter \subseteq filter'
       /\ \A c, d \in RegCallers :
              (/\ c # d
               /\ regCall[d].pc = "done" /\ regCall[d].ckey # <<>>
               /\ regCall[d].result
               /\ regCall[c].pc = "filter" /\ regCall'[c].pc = "done"
               /\ regCall[c].ckey = regCall[d].ckey)
              => regCall'[c].result]_vars

\* One caller was told "new" and the other "already present" for the same
\* canonical key, and MarkResponse has been called on the registry as well.
C11_Witness ==
    /\ regCall[1].pc = "done" /\ regCall[2].pc = "done"
    /\ regCall[1].ckey # <<>> /\ regCall[1].ckey = regCall[2].ckey
    /\ ~regCall[1].result /\ regCall[2].result
    /\ \E i \in DOMAIN markLog : markLog[i].key # <<>>

\* C12: two requests collide if and only if their canonical keys are
\* byte-equal: when each of two callers has made one call and nothing else was
\* done on the registry, one of them is told "already present" exactly when
\* the two canonical keys are the same string.
C12_CollideIffByteEqual ==
    \A c, d \in RegCallers :
        (/\ c # d /\ regOps = 2 /\ markLog = <<>>
         /\ regCall[c].pc = "done" /\ regCall[d].pc = "done"
         /\ regCall[c].ckey # <<>> /\ regCall[d].ckey # <<>>)
        => ((regCall[c].result \/ regCall[d].result)
                <=> regCall[c].ckey = regCall[d].ckey)

\* C12, amended: the two requests collide exactly when their canonical keys are
\* the same string up to letter case.
C12_CollideIffEqualIgnoringCase ==
    \A c, d \in RegCallers :
        (/\ c # d /\ regOps = 2 /\ markLog = <<>>
         /\ regCall[c].pc = "done" /\ regCall[d].pc = "done"
         /\ regCall[c].ckey # <<>> /\ regCall[d].ckey # <<>>)
        => ((regCall[c].result \/ regCall[d].result)
                <=> FoldCase(regCall[c].ckey) = FoldCase(regCall[d].ckey))

\* Two calls whose canonical keys differ in the letter case of the path only:
\* the second is told "already present".
C12_Witness ==
    /\ regOps = 2 /\ markLog = <<>>
    /\ regCall[1].pc = "done" /\ regCall[2].pc = "done"
    /\ regCall[1].ckey # <<>> /\ regCall[1].ckey # regCall[2].ckey
    /\ FoldCase(regCall[1].ckey) = FoldCase(regCall[2].ckey)
    /\ ~regCall[1].result /\ regCall[2].result

\* Two URLs differ at most in what C13 lists: the fragment, the letter case of
\* scheme and host, a default port being written or not, the order of the
\* query keys, the order and multiplicity of the values of a key.
DifferOnlyInKeyNeutralParts(u, u2) ==
    LET DefaultPort(x) == (ToLower(x.scheme) = "http" /\ x.port = "80")
                          \/ (ToLower(x.scheme) = "https" /\ x.port = "443")
        Port(x) == IF DefaultPort(x) THEN "" ELSE x.port
        Pairs(x) == {x.query[i] : i \in DOMAIN x.query}
    IN  /\ ToLower(u.scheme) = ToLower(u2.scheme)
        /\ ToLower(u.host) = ToLower(u2.host)
        /\ Port(u) = Port(u2)
        /\ u.path = u2.path /\ u.slash = u2.slash
        /\ Pairs(u) = Pairs(u2)

C14_KeyInvariantUnderHeaderCaseAndOrder ==
    LET Lowered(r) == {<<ToLower(r.Headers[i][1]), r.Headers[i][2]>> :
                           i \in DOMAIN r.Headers}
    IN  (/\ call.fn = "buildRequestKey"
         /\ Len(call.sr.Headers) = Len(call.sr2.Headers)
         /\ Cardinality(Lowered(call.sr)) = Len(call.sr.Headers)
         /\ Lowered(call.sr) = Lowered(call.sr2))
        => call.key = call.key2

\* The most recent call before call i of the log with the same key, 0 if none.
PreviousMark(i) ==
    LET earlier == {j \in 1..(i - 1) : markLog[j].key = markLog[i].key}
    IN  IF earlier = {} THEN 0
        ELSE CHOOSE j \in earlier : \A k \in earlier : k <= j

\* C9: MarkResponse returns true exactly when the hash of the body (the SHA-1
\* of the trimmed body, the empty hash for an empty body) equals the hash of
\* the body of the most recent earlier MarkResponse for the same key; the map
\* holds one hash per key, that of the most recent call for the key.
C9_MarkResponseIffSameHash ==
    /\ \A i \in DOMAIN markLog :
           markLog[i].key # <<>> =>
               (markLog[i].result <=>
                   (/\ PreviousMark(i) # 0
                    /\ hashContent(markLog[PreviousMark(i)].body)
                           = hashContent(markLog[i].body)))
    /\ \A i, j \in DOMAIN respHashes :
           respHashes[i][1] = respHashes[j][1] => i = j
    /\ \A i \in DOMAIN markLog :
           (/\ markLog[i].key # <<>>
            /\ \A j \in DOMAIN markLog : j > i => markLog[j].key # markLog[i].key)
           => \E k \in DOMAIN respHashes :
                  respHashes[k] = <<markLog[i].key, hashContent(markLog[i].body)>>

\* Three calls for one key: a body, another body (false, the hash is
\* replaced), the second body again (true).
C9_Witness ==
    /\ Len(markLog) = 3
    /\ markLog[1].key # <<>>
    /\ markLog[2].key = markLog[1].key /\ markLog[3].key = markLog[1].key
    /\ hashContent(markLog[1].body) # hashContent(markLog[2].body)
    /\ hashContent(markLog[1].body) # "" /\ hashContent(markLog[2].body) # ""
    /\ ~markLog[2].result /\ markLog[3].result

\* C10 as stated: MarkResponse with an empty body returns false, on the
\* first call for a key and on every later call.
C10_EmptyBodyAlwaysFalse ==
    \A i \in DOMAIN markLog : markLog[i].body = "" => ~markLog[i].result

\* C10 amended: MarkResponse with an empty body returns false on the first
\* call for a key and after a call whose body had a non-empty hash; it
\* returns true when the previous call for the key had an empty or
\* all-whitespace body.
C10_EmptyBodyFalseUnlessRepeated ==
    \A i \in DOMAIN markLog :
        (markLog[i].body = "" /\ markLog[i].key # <<>>) =>
            (markLog[i].result <=>
                (/\ PreviousMark(i) # 0
                 /\ hashContent(markLog[PreviousMark(i)].body) = ""))

\* An empty body twice for one key: false, then true.
C10_Witness ==
    /\ Len(markLog) >= 2
    /\ markLog[1].key # <<>> /\ markLog[2].key = markLog[1].key
    /\ markLog[1].body = "" /\ markLog[2].body = ""
    /\ ~markLog[1].result /\ markLog[2].result

-----------------------------------------------------------------------------
(* Claims about the reflection engine. *)

\* The findings produced for a key: those given to outputReflection and those
\* a handler holds between unlocking and outputReflection.
FindingsOf(k) ==
    Cardinality({i \in DOMAIN findings : findings[i].key = k})
    + Cardinality({h \in RefHandlers :
                      respHandler[h].pc = "output" /\ respHandler[h].key = k})

\* C3: at most one reflection finding is produced per request key, and once
\* the entry of a key is marked emitted, evaluate returns no finding for it.
C3_OneFindingPerKey ==
    \A k \in RefKeys :
        /\ FindingsOf(k) <= 1
        /\ FindingsOf(k) = 1 => reflectedStore[k].emitted
        /\ reflectedStore[k].emitted =>
               ~evaluate(reflectedStore[k]).finding.found

\* A finding was output for a key, and afterwards a mutated response of
\* another request, with a marker in its body, was recorded for the same key.
C3_Witness ==
    \E k \in RefKeys :
        /\ \E i \in DOMAIN findings :
               /\ findings[i].key = k
               /\ findings[i].finding.url # reflectedStore[k].url
        /\ reflectedStore[k].emitted
        /\ reflectedStore[k].mutatedMarkers # <<>>
        /\ \A h \in RefHandlers : respHandler[h].pc = "idle"

\* C4: a finding is produced only when a baseline response and a mutated
\* response have both been recorded for its key.
C4_FindingNeedsBothResponses ==
    /\ \A i \in DOMAIN findings :
           findings[i].hadBaseline /\ findings[i].hadMutated
    /\ \A h \in RefHandlers :
           respHandler[h].pc = "output" =>
               respHandler[h].hadBaseline /\ respHandler[h].hadMutated

\* A finding was output for a key with both responses recorded, and the other
\* key, with only a mutated response that has a marker, has no finding.
C4_Witness ==
    \E k1, k2 \in RefKeys :
        /\ Len(findings) = 1
        /\ findings[1].key = k1
        /\ seenResponses[k1].baseline /\ seenResponses[k1].mutated
        /\ seenResponses[k2].mutated /\ ~seenResponses[k2].baseline
        /\ reflectedStore[k2].mutatedMarkers # <<>>
        /\ \A h \in RefHandlers : respHandler[h].pc = "idle"


-----------------------------------------------------------------------------
(* Claims about one crawler. *)

\* C5: the number of URLs accepted into the hybrid queue, the sends of
\* enqueueHybrid, never exceeds hybridVisitCap, also with concurrent callers.
C5_AcceptedWithinCap ==
    hybridEnqueued + Cardinality({p \in DOMAIN enq : enq[p].pc = "add"})
        <= hybridVisitCap

\* C6: when Start() of a crawler that nobody stopped has finished, every URL
\* accepted into the hybrid queue has been given to NavigateAndAnalyze.
C6_AcceptedAnalysedBeforeShutdown ==
    (mainPc = "done" /\ ~stopped /\ stopCall = "idle") =>
        accepted \subseteq navigated

\* C8: a request that passes the OnRequest callback of the main or of the
\* link-finder collector while the stopped flag is set is aborted.
C8_StoppedAbortsRequests ==
    [][\A r \in Reqs :
          (stopped /\ req[r].pc = "queued" /\ req'[r].pc # "queued")
              => req'[r].pc = "aborted"]_vars

\* A request of the link-finder collector, issued before Stop(), was aborted,
\* while a request of the main collector had been sent before.
C8_Witness ==
    /\ stopped
    /\ \E r \in Reqs : req[r].pc = "aborted" /\ req[r].coll = "LF"
    /\ \E r \in Reqs : req[r].pc = "response"


-----------------------------------------------------------------------------
(* Claims about the site scheduler. *)

\* C7: after the process context is cancelled, Stop() is called on every
\* crawler active at or after the cancellation.  The drain goroutine is the
\* only caller of Stop(): once it has ended, every crawler still crawling
\* must have had its Stop() called.
C7_StopReachesActiveCrawlers ==
    (ctxDone /\ drainPc = "done") =>
        \A w \in SiteWorkers :
            siteWorker[w].pc = "crawl" => siteWorker[w].site \in stopCalled

-----------------------------------------------------------------------------
(* Claims about the backoff counters. *)

\* C17: after a response with a status from 200 to 399 is observed, all
\* three counters are 0, whatever they were, and the call does not sleep.
C17_SuccessResetsCounters ==
    (backoff.last.status >= 200 /\ backoff.last.status < 400)
        => /\ backoff.backoff429 = 0
           /\ backoff.backoff403 = 0
           /\ backoff.backoffError = 0
           /\ backoff.last.sleep = 0

\* A status below 400 observed when all three counters were above 0.
C17_Witness ==
    /\ backoff.last.status = 399
    /\ \A i \in 1..3 : backoff.last.before[i] > 0
    /\ backoff.backoff429 = 0 /\ backoff.backoff403 = 0
    /\ backoff.backoffError = 0
    /\ backoff.last.sleep = 0

\* C18: after a 429 is observed, backoff429 is one more than before, the
\* sleep of the call is min(backoff429, 5) seconds of the new value, at most
\* 5, and backoff429 is the number of 429s since the last status below 400.
C18_TooManyRequestsBacksOff ==
    /\ backoff.backoff429 = backoff.since429
    /\ backoff.last.status = 429
           => /\ backoff.backoff429 = backoff.last.before[1] + 1
              /\ backoff.last.sleep = minInt(backoff.backoff429, 5)
              /\ backoff.last.sleep <= 5

\* The sixth 429 in a row, with a 403 among them: the sleep stays at 5.
C18_Witness ==
    /\ backoff.last.status = 429
    /\ backoff.backoff429 = 6
    /\ backoff.backoff403 = 1
    /\ backoff.last.sleep = 5

-----------------------------------------------------------------------------
(* Claims about the application state graph. *)

\* C19: AddState returns true exactly when no node with the hash existed
\* before the call; the graph holds at most one node for a hash; of the
\* AddState calls made with one hash, whoever made them, exactly one
\* returned true.
C19_AddStateTrueIffNew ==
    /\ graph.last.fn = "AddState" => (graph.last.ret <=> ~graph.last.existed)
    /\ \A n, m \in graph.nodes : n.StateHash = m.StateHash => n = m
    /\ \A h \in StateHashes : graph.calls[h] > 0 => graph.added[h] = 1

\* Three AddState calls with one hash, the last one by another goroutine
\* than the one that was told the state is new.
C19_Witness ==
    /\ graph.calls["h1"] = 3
    /\ graph.added["h1"] = 1
    /\ graph.last.fn = "AddState" /\ graph.last.caller = "g2"
    /\ ~graph.last.ret
    /\ \E n \in graph.nodes : n.StateHash = "h1" /\ n.VisitCount = 3

\* C20: within one state no two stored transitions have the same transition
\* key, no stored transition has a blank action type, and
\* RegisterTransitions returns the number of transitions it newly stored.
C20_TransitionsUniqueAndCounted ==
    /\ \A h \in StateHashes : \A e, f \in graph.transitions[h] :
           /\ transitionKey(e.t) = transitionKey(f.t) => e = f
           /\ TrimSpace(e.t.ActionType) # ""
    /\ graph.last.fn = "RegisterTransitions" =>
           graph.last.ret =
               Cardinality(graph.transitions[graph.last.hash])
               - Cardinality(graph.last.before)

\* A call with a blank transition and one whose key is stored already, by
\* which nothing is stored, after a call that stored one of two transitions
\* with equal keys.
C20_Witness ==
    /\ graph.last.fn = "RegisterTransitions"
    /\ Len(graph.last.transitions) = 2
    /\ TrimSpace(graph.last.transitions[1].ActionType) = ""
    /\ graph.last.transitions[2].ActionType = "Click"
    /\ graph.last.ret = 0
    /\ \E e \in graph.last.before :
           e.t.ActionType = "click" /\ e.t.Details = {<<"a", "1">>}
    /\ Cardinality(graph.transitions[graph.last.hash]) = 1

-----------------------------------------------------------------------------
(* Claims about the hybrid queue and the browser pool. *)

\* C21: the hybrid queue never holds more than max(workers * 4, 8) URLs, and
\* enqueueHybrid does not block: a caller at the select can always take a
\* step, and when the queue is full and the crawler is not stopped the URL
\* is dropped and the call returns.
C21_QueueBoundedAndNonBlocking ==
    LET workers == Cardinality(HybridWorkers)
        bound == IF workers * 4 > 8 THEN workers * 4 ELSE 8
    IN  /\ Len(hq.queue) <= bound
        /\ \A p \in HqCallers :
               hq.pc[p] # "none" => ENABLED enqueueHybridSelect(p)
        /\ hq.last.kind = "dropped" =>
               \A i \in DOMAIN hq.queue : hq.queue[i] # hq.last.url

\* A URL dropped at a full queue, its caller having returned.
C21_Witness ==
    /\ hq.last.kind = "dropped"
    /\ Len(hq.queue) = 8
    /\ \A p \in HqCallers : hq.pc[p] = "none"

\* C22: AcquirePage returns a page taken from the pool, which no other
\* caller holds, or the error of the cancelled context; and a caller whose
\* context is cancelled while it waits for a page does not stay blocked.
C22_AcquireReturnsPageOrCancellation ==
    /\ [](\A c \in PoolCallers :
            /\ pool.acq[c].pc = "holding" =>
                   /\ pool.acq[c].page \in 1..PoolSize
                   /\ \A i \in DOMAIN pool.pagePool :
                          pool.pagePool[i] # pool.acq[c].page
                   /\ \A d \in PoolCallers \ {c} :
                          pool.acq[d].pc = "holding" =>
                              pool.acq[d].page # pool.acq[c].page
            /\ pool.acq[c].pc = "failed" =>
                   pool.ctxDone /\ pool.acq[c].err = "context canceled")
    /\ \A c \in PoolCallers :
           (pool.acq[c].pc = "select" /\ pool.ctxDone)
               ~> (pool.acq[c].pc # "select")

\* A caller got the cancellation error while the pool had no page, every
\* page being held by another caller.
C22_Witness ==
    /\ pool.pagePool = <<>>
    /\ \E c \in PoolCallers :
           /\ pool.acq[c].pc = "failed"
           /\ \A d \in PoolCallers \ {c} : pool.acq[d].pc = "holding"

-----------------------------------------------------------------------------
(* Claims about what a crawler writes. *)

\* C23: for a failed request with status 404, 429, 500 or above, or below
\* 100, no line is printed or written; for every other status from 400 to
\* 499 one line with the URL is printed.
C23_ErrorLines ==
    call.fn = "OnError" =>
        IF call.status \in {404, 429} \/ call.status >= 500
           \/ call.status < 100
        THEN call.out.stdout = <<>> /\ call.out.file = <<>>
        ELSE (call.status >= 400 /\ call.status <= 499) =>
                 /\ Len(call.out.stdout) = 1
                 /\ \E i \in DOMAIN call.out.stdout[1] :
                        SubSeq(call.out.stdout[1], i,
                               i + Len(NormalizeDisplayURL(URLPlain)) - 1)
                            = NormalizeDisplayURL(URLPlain)
                 /\ call.hasOutput => Len(call.out.file) = 1

\* A 403 is reported with its status code.
C23_Witness ==
    /\ call.fn = "OnError"
    /\ call.status = 403 /\ ~call.jsonOutput /\ ~call.quiet
    /\ call.hasOutput
    /\ call.out.stdout = <<<<"[url] - [code-", "403", "] - ">>
                             \o NormalizeDisplayURL(URLPlain)>>
    /\ call.out.file = call.out.stdout

------------------------------------------------------------------------------
(* Claims about the Output. *)

\* The lines of the strings WriteToFile accepted, in the order of the calls.
RECURSIVE AcceptedLines(_)
AcceptedLines(log) ==
    IF log = <<>> THEN <<>>
    ELSE (IF Head(log).accepted THEN Head(log).msg ELSE <<>>)
         \o AcceptedLines(Tail(log))

\* C25: an Output appends a line to its file only if no line equal to it
\* ignoring letter case is already in the file, whether that line was
\* written through this Output or was in the file when it was opened; the
\* accepted lines appear in the order of the calls.
C25_AppendsOnlyNewLinesInOrder ==
    output.open =>
        /\ \A i \in (output.base + 1)..Len(output.file) :
               \A j \in 1..(i - 1) :
                   FoldCase(<<output.file[j]>>) # FoldCase(<<output.file[i]>>)
        /\ SubSeq(output.file, output.base + 1, Len(output.file))
               = AcceptedLines(output.log)

\* The same for Outputs that are opened on files of short lines and are
\* given strings of one short line.
C25_SingleShortLines ==
    ( /\ output.open
      /\ \A i \in 1..output.base : output.file[i] \notin {LongLine, "raw", ""}
      /\ \A k \in DOMAIN output.log :
             output.log[k].msg \in {<<"a">>, <<"A">>, <<"b">>, <<" ">>} )
    => C25_AppendsOnlyNewLinesInOrder

------------------------------------------------------------------------------
(* Claims about the order of the responses of a request key. *)

\* C26: for a request key that receives one baseline response and one
\* mutated response (both queued by one scheduleJSRequest call, so with the
\* same method and origin), whether a finding is emitted and what the finding
\* contains are the same whether the baseline response or the mutated
\* response is handled first.
C26_FindingIndependentOfOrder ==
    ( /\ call.fn = "bothOrders"
      /\ call.baseline.method = call.mutated.method
      /\ call.baseline.origin = call.mutated.origin )
    => /\ call.baselineFirst = call.mutatedFirst
       /\ call.baselineBeforeQueue = call.mutatedFirst

C26_Witness ==
    /\ call.fn = "bothOrders"
    /\ call.baseline.method = call.mutated.method
    /\ call.baseline.origin = call.mutated.origin
    /\ call.mutatedFirst.found
    /\ call.baselineFirst.found
    /\ call.mutatedFirst.param = call.mutated.param
    /\ call.mutatedFirst.reasons = <<"payload-reflected", "body-delta">>

------------------------------------------------------------------------------
(* Claims about synthesised requests. *)

\* C27: whenever mutated variants of a synthesised request are queued, the
\* unmodified baseline request carrying the same request key is queued as
\* well: every key with a mutated request also has a baseline request.
C27_MutatedRequestsHaveBaseline ==
    \A i \in DOMAIN js.queued :
        js.queued[i].mutation =>
            \E j \in DOMAIN js.queued :
                /\ ~js.queued[j].mutation
                /\ js.queued[j].key = js.queued[i].key

\* The same for requests the registry did not hold when they were scheduled.
C27_NewRequestsHaveBaseline ==
    (js.last.fn = "schedule" /\ ~js.last.held) =>
        \A i \in DOMAIN js.queued :
            (js.queued[i].mutation /\ js.queued[i].key = js.last.key) =>
                \E j \in 1..(i - 1) :
                    /\ ~js.queued[j].mutation
                    /\ js.queued[j].key = js.last.key

------------------------------------------------------------------------------
(* Claims about the analysis of states. *)

\* C28: a state of the state graph is marked analysed only after the
\* transitions of that state have been extracted and registered; no state is
\* marked analysed while its transition extraction has not happened or is
\* still in progress on another worker.
C28_AnalysedOnlyAfterExtraction ==
    \A n \in analysis.nodes :
        n.Analyzed =>
            /\ analysis.extracted[n.StateHash]
            /\ \A w \in AnalysisWorkers :
                   ~( /\ analysis.worker[w].pc = "extract"
                      /\ analysis.worker[w].StateHash = n.StateHash )

\* The same for the worker that found the state: it marks the state after its
\* own extraction.
C28_FinderMarksAfterExtraction ==
    \A w \in AnalysisWorkers :
        (analysis.worker[w].pc = "result" /\ analysis.worker[w].IsNewState)
            => analysis.extracted[analysis.worker[w].StateHash]

------------------------------------------------------------------------------
(* Claims about the values found in responses. *)

\* The values of a kind that were printed or are about to be printed.
EmittedOrPending ==
    found.emitted
    \o (IF found.pc["r1"].pc = "emit"
        THEN <<[kind |-> found.pc["r1"].kind, value |-> found.pc["r1"].value,
                by |-> "r1", tests |-> Len(found.seen)]>> ELSE <<>>)
    \o (IF found.pc["r2"].pc = "emit"
        THEN <<[kind |-> found.pc["r2"].kind, value |-> found.pc["r2"].value,
                by |-> "r2", tests |-> Len(found.seen)]>> ELSE <<>>)

\* C29: each distinct subdomain, AWS S3 bucket string and JS endpoint is
\* emitted at most once per crawler, also when the same value is found
\* concurrently in several responses: the callback whose test of the set came
\* first emits it.
C29_EachValueEmittedOnce ==
    \A i, j \in DOMAIN EmittedOrPending :
        ( /\ EmittedOrPending[i].kind = EmittedOrPending[j].kind
          /\ ToLower(EmittedOrPending[i].value)
                 = ToLower(EmittedOrPending[j].value) )
        => i = j

\* Both callbacks found the same subdomain, the second before the first had
\* printed it, and it was printed once.
C29_Witness ==
    /\ Len(found.seen) = 2
    /\ found.seen[1] = [kind |-> "subdomains", value |-> "a"]
    /\ found.seen[2] = [kind |-> "subdomains", value |-> "a"]
    /\ found.emitted = <<[kind |-> "subdomains", value |-> "a", by |-> "r1",
                          tests |-> 2]>>
    /\ found.pc["r2"].pc = "idle"
    /\ found.ops = 2

------------------------------------------------------------------------------
(* Claims about the end of the hybrid workers. *)

\* C30: after Stop() is called on a crawler or its hybrid context is
\* cancelled, every hybrid worker exits after at most its current
\* navigation (no worker starts a navigation once the context is cancelled,
\* and every worker ends), so the wait on the hybrid workers returns and the
\* browser pool is shut down.
C30_WorkersExitAfterStop ==
    /\ [][hybridCtxDone =>
            \A w \in HybridWorkers :
                worker'[w].pc = "navigate" => worker[w].pc = "navigate"]_vars
    /\ (stopped \/ hybridCtxDone)
           ~> (\A w \in HybridWorkers : worker[w].pc = "exited")
    /\ (mainPc = "hybridWG") ~> (mainPc = "done")

\* Stop() returned while a worker was navigating; the worker has ended and
\* WaitHybrid has shut the pool down.
C30_Witness ==
    /\ stopCall = "returned"
    /\ hybridCtxDone
    /\ navigated # {}
    /\ \A w \in HybridWorkers : worker[w].pc = "exited"
    /\ mainPc = "done"

------------------------------------------------------------------------------
(* Claims about evaluate. *)

\* The reason set of an entry: its evidence markers, payload-reflected when
\* the mutated response contained the payload and there are no markers, and
\* body-delta when the two hashes differ.
ReasonSet(entry) ==
    {entry.mutatedMarkers[i] : i \in DOMAIN entry.mutatedMarkers}
    \cup (IF entry.mutatedContains /\ entry.mutatedMarkers = <<>>
          THEN {"payload-reflected"} ELSE {})
    \cup (IF entry.baselineHash # entry.mutatedHash
          THEN {"body-delta"} ELSE {})

\* C31: when both slots of a reflection entry are populated and nothing has
\* been emitted for it, evaluation produces a finding if and only if the
\* reason set is non-empty; the finding carries that set and sets the emitted
\* flag; with an empty reason set no finding is produced and the emitted flag
\* stays false.
C31_FindingIffReasons ==
    ( /\ call.fn = "evaluate"
      /\ call.entry.baselineSet /\ call.entry.mutatedSet
      /\ ~call.entry.emitted )
    => /\ call.ret.finding.found <=> (ReasonSet(call.entry) # {})
       /\ call.ret.entry.emitted <=> call.ret.finding.found
       /\ call.ret.finding.found =>
              {call.ret.finding.reasons[i] :
                   i \in DOMAIN call.ret.finding.reasons}
                  = ReasonSet(call.entry)

\* An entry whose only reason is the difference of the hashes.
C31_Witness ==
    /\ call.fn = "evaluate"
    /\ call.entry.baselineSet /\ call.entry.mutatedSet
    /\ ~call.entry.emitted
    /\ ~call.entry.mutatedContains
    /\ call.entry.mutatedMarkers = <<>>
    /\ call.ret.finding.found
    /\ call.ret.finding.reasons = <<"body-delta">>

-----------------------------------------------------------------------------
(* Claims about the pages of the browser pool. *)

\* C32: when the analysis of one URL fails after a page was acquired (at
\* Navigate, WaitLoad, HTML or extractTransitions), the return of
\* NavigateAndAnalyze puts that page back into the pool, hybrid crawling
\* stays enabled and its context is not cancelled, and the worker is back
\* at its loop, where it takes the next URL.
C32_FailedAnalysisReleasesPage ==
    [][\A c \in PoolCallers :
          /\ (pool.acq[c].pc = "holding" /\ pool'.acq[c].pc = "returning"
                  /\ pool'.acq[c].err # "") =>
                 /\ pool'.active = pool.active
                 /\ pool'.ctxDone = pool.ctxDone
                 /\ pool'.acq[c].page = pool.acq[c].page
          /\ (pool.acq[c].pc = "returning" /\ pool.acq[c].err # ""
                  /\ pool'.acq[c].pc # "returning") =>
                 /\ \E i \in DOMAIN pool'.pagePool :
                        pool'.pagePool[i] = pool.acq[c].page
                 /\ pool'.active = pool.active
                 /\ pool'.ctxDone = pool.ctxDone
                 /\ pool'.acq[c].pc = "idle"
                 /\ pool'.acq[c].err = pool.acq[c].err]_vars

\* A worker back at its loop after a failed extraction, another after a
\* failed navigation, every page in the pool again and hybrid crawling
\* enabled.
C32_Witness ==
    /\ pool.active /\ ~pool.ctxDone
    /\ Len(pool.pagePool) = PoolSize
    /\ \E c \in PoolCallers :
           /\ pool.acq[c].pc = "idle"
           /\ pool.acq[c].err = "extract transitions"
    /\ \E c \in PoolCallers :
           pool.acq[c].pc = "idle" /\ pool.acq[c].err = "navigate"

\* C38: each page of the pool is either in the channel pagePool, once, or
\* held by exactly one caller that acquired it, and the channel never holds
\* more than PoolSize pages.
C38_PageInPoolOrHeldByOne ==
    /\ Len(pool.pagePool) <= PoolSize
    /\ \A p \in 1..PoolSize :
           Cardinality({i \in DOMAIN pool.pagePool : pool.pagePool[i] = p})
           + Cardinality({c \in PoolCallers :
                             /\ pool.acq[c].pc \in {"holding", "returning"}
                             /\ pool.acq[c].page = p}) = 1

\* Every page held, each by another caller, one of them about to release
\* it, and one more caller waiting at the select.
C38_Witness ==
    /\ pool.pagePool = <<>>
    /\ \E c, d, e \in PoolCallers :
           /\ pool.acq[c].pc = "holding"
           /\ pool.acq[d].pc = "returning"
           /\ pool.acq[c].page # pool.acq[d].page
           /\ pool.acq[e].pc = "select"

-----------------------------------------------------------------------------
(* Claims about the depth of synthesised requests. *)

\* C33: a request queued by queueRequest carries the depth of its parent
\* plus one, a negative depth of the parent counting as 0; with a depth
\* limit greater than 0 no request deeper than the limit is queued, and
\* with the limit 0 a request of any depth is queued.
C33_DepthIsParentPlusOne ==
    call.fn = "queueRequest" =>
        LET parent == IF call.parentDepth < 0 THEN 0 ELSE call.parentDepth
        IN  /\ \A i \in DOMAIN call.ret :
                   /\ OnRequestDepth(call.ret[i], 1) = parent + 1
                   /\ call.maxDepth > 0 =>
                          OnRequestDepth(call.ret[i], 1) <= call.maxDepth
            /\ (call.maxDepth = 0 \/ parent + 1 <= call.maxDepth) =>
                   Len(call.ret) = 1

\* A request of a parent with a negative depth, queued with depth 1.
C33_Witness ==
    /\ call.fn = "queueRequest"
    /\ call.parentDepth < 0
    /\ call.maxDepth = 1
    /\ Len(call.ret) = 1
    /\ call.ret[1].depth = "1"

\* A request queued beyond every limit greater than 0 of the model, by a
\* crawler without limit.
C33_WitnessUnlimited ==
    /\ call.fn = "queueRequest"
    /\ call.maxDepth = 0
    /\ call.parentDepth = MaxDepth + 2
    /\ Len(call.ret) = 1
    /\ OnRequestDepth(call.ret[1], 1) = MaxDepth + 3

-----------------------------------------------------------------------------
(* Claims about the DOM deduper. *)

\* C34 as stated: ShouldSkip returns true exactly when the signature of the
\* document is within the threshold of a signature recorded for the domain;
\* otherwise it records the signature for the domain and returns false.
C34_SkipIffNearRecorded ==
    dom.last.fn = "ShouldSkip" =>
        LET sig == ComputeDOMSignature(dom.last.doc)
            near == \E i \in DOMAIN dom.last.before :
                        HammingDistance(dom.last.before[i], sig)
                            <= dom.threshold
        IN  /\ dom.last.skip <=> near
            /\ dom.buckets[dom.last.domain] =
                   IF near THEN dom.last.before
                   ELSE Append(dom.last.before, sig)

\* C34: for a body that is not empty ShouldSkip returns true exactly when
\* the signature of the document is within the threshold of a signature
\* recorded for the same domain, and otherwise records the signature for
\* that domain only and returns false; for an empty body it returns false
\* and records nothing.
C34_SkipIffNearRecordedUnlessEmpty ==
    dom.last.fn = "ShouldSkip" =>
        LET sig == ComputeDOMSignature(dom.last.doc)
            near == \E i \in DOMAIN dom.last.before :
                        HammingDistance(dom.last.before[i], sig)
                            <= dom.threshold
        IN  /\ dom.last.doc.body # "" =>
                   /\ dom.last.skip <=> near
                   /\ dom.last.sig = sig
                   /\ dom.buckets[dom.last.domain] =
                          IF near THEN dom.last.before
                          ELSE Append(dom.last.before, sig)
            /\ dom.last.doc.body = "" =>
                   /\ ~dom.last.skip
                   /\ dom.buckets[dom.last.domain] = dom.last.before
            /\ \A i \in DOMAIN dom.last.before :
                   dom.buckets[dom.last.domain][i] = dom.last.before[i]

\* A second identical document skipped for its domain, where a document
\* that differs by one attribute was recorded as well (distance 7 at the
\* threshold 6), while the other domain has no signature.
C34_Witness ==
    /\ dom.last.fn = "ShouldSkip"
    /\ dom.threshold = 6
    /\ dom.last.domain = "a.com"
    /\ dom.last.doc = DocPara
    /\ dom.last.skip
    /\ dom.last.before = <<ComputeDOMSignature(DocPara),
                           ComputeDOMSignature(DocParaClass)>>
    /\ dom.buckets["b.com"] = <<>>

\* The second empty document of a domain.
C34_WitnessEmpty ==
    /\ dom.last.fn = "ShouldSkip"
    /\ dom.last.doc = DocEmpty
    /\ dom.calls = 2
    /\ dom.buckets = [domain \in Domains |-> <<>>]

-----------------------------------------------------------------------------
(* Claims about Stop(). *)

\* C35: however many calls of Stop() are made on a crawler, one after the
\* other or at the same time, stopChan is closed exactly once: no call
\* closes a channel that is closed already, and once a call has returned
\* the channel is closed.
C35_StopChanClosedOnce ==
    /\ stops.closes <= 1
    /\ ~stops.panicked
    /\ (stops.calls > 0 /\ \A g \in StopCallers : stops.pc[g] = "idle") =>
           stops.closes = 1

\* Calls of Stop() that do not overlap close stopChan exactly once.
C35_SequentialCallsCloseOnce ==
    ~stops.overlap =>
        /\ stops.closes <= 1
        /\ ~stops.panicked
        /\ (stops.calls > 0 /\ \A g \in StopCallers : stops.pc[g] = "idle") =>
               stops.closes = 1

\* Three calls, one after the other, all returned.
C35_SequentialWitness ==
    /\ ~stops.overlap
    /\ stops.calls = 3
    /\ stops.closes = 1
    /\ \A g \in StopCallers : stops.pc[g] = "idle"

-----------------------------------------------------------------------------
(* Claims about URLs dropped at a full hybrid queue. *)

\* C36: a URL that was dropped because the hybrid queue was full is not
\* recorded as visited, and no later enqueue of it is turned away as
\* visited (so that one made when the queue has room and the visit limit is
\* not reached is accepted).
C36_DroppedNotVisited ==
    /\ \A u \in hq.dropped : ~StringFilterDuplicate(hq.visited, <<u>>).dup
    /\ hq.last.kind = "visited" => TrimSpace(hq.last.url) \notin hq.dropped

\* The second enqueue of a dropped URL, turned away as visited while the
\* crawler is active, the queue has room and the limit is not reached.
C36_DroppedTurnedAway ==
    /\ hq.last.kind = "visited"
    /\ hq.last.url \in hq.dropped
    /\ hq.active /\ ~hq.ctxDone /\ ~hq.stopChanClosed
    /\ Len(hq.queue) < queueSize
    /\ hq.enqueued < DefaultHybridVisitCap
    /\ \A p \in HqCallers : hq.pc[p] = "none"

-----------------------------------------------------------------------------
(* Claims about the request a reflection finding names. *)

\* C37: a finding reports the parameter and the payload of the mutated
\* request whose response it reports: the request with the URL of the
\* finding.
C37_FindingNamesItsRequest ==
    \A i \in DOMAIN findings :
        \E m \in RefMutations :
            /\ m.url = findings[i].finding.url
            /\ m.param = findings[i].finding.param
            /\ m.payload = findings[i].finding.payload


-----------------------------------------------------------------------------
(* Claims about the sites the scheduler hands to its workers. *)

\* The receives of site i, each as the worker and the position in the
\* sequence of the sites that worker received.
SiteTaken(i) ==
    UNION {{<<w, j>> : j \in {k \in DOMAIN siteWorker[w].taken :
                                 siteWorker[w].taken[k] = i}} :
           w \in SiteWorkers}

\* The crawlers started for site i.
SiteCrawled(i) ==
    UNION {{<<w, j>> : j \in {k \in DOMAIN siteWorker[w].crawled :
                                 siteWorker[w].crawled[k] = i}} :
           w \in SiteWorkers}

-----------------------------------------------------------------------------
(* Claims about the end of a cancelled run. *)

\* C40: once the process context is cancelled, the feeder closes inputChan
\* and sends nothing afterwards, every worker returns (none stays blocked
\* at its receive), and runRoot returns from wg.Wait().
C40_CancelledRunReturns ==
    /\ [][feeder.closed => Len(inputChan') <= Len(inputChan)]_vars
    /\ ctxDone ~> feeder.closed
    /\ ctxDone ~> (\A w \in SiteWorkers : siteWorker[w].pc = "exited")
    /\ ctxDone ~> (runPc = "returned")

\* runRoot has returned from a run cancelled before the feeder had sent the
\* last site: a worker crawled a site, the channel is closed and every
\* worker has returned.
C40_Witness ==
    /\ runPc = "returned"
    /\ feeder.closed /\ feeder.next <= NumSites
    /\ \A w \in SiteWorkers : siteWorker[w].pc = "exited"
    /\ \E w \in SiteWorkers : siteWorker[w].crawled # <<>>

-----------------------------------------------------------------------------
(* Claims about NormalizeURL. *)

\* The cleaned path of the URL NormalizeURL was applied to.
CleanedPath == cleanPathParts(call.u.path).keep

\* segs has three consecutive segments that are equal but for letter case.
HasRun(segs) ==
    \E i \in 1..(Len(segs) - 2) :
        /\ ToLower(segs[i]) = ToLower(segs[i + 1])
        /\ ToLower(segs[i]) = ToLower(segs[i + 2])

\* segs has a block of 2 to 4 segments three times in a row.
HasCycle(segs) ==
    \E n \in 2..4 : \E s \in 1..(Len(segs) - 3 * n + 1) :
        \A j \in 0..(2 * n - 1) :
            ToLower(segs[s + j]) = ToLower(segs[s + j + n])

C16_RejectsRunsAndCycles ==
    (call.fn = "NormalizeURL" /\ (HasRun(CleanedPath) \/ HasCycle(CleanedPath)))
        => ~call.ok

\* http://t/a/b/a/b/a/b/c is rejected.
C16_Witness ==
    /\ call.fn = "NormalizeURL"
    /\ call.u.path = <<"a", "b", "a", "b", "a", "b", "c">>
    /\ ~HasRun(CleanedPath) /\ HasCycle(CleanedPath)
    /\ ~call.ok

=============================================================================
